---------------------------- MODULE Spec2Model ----------------------------
(***************************************************************************)
(* A model of slurp (bninja/slurp), the log-shipping agent: the block      *)
(* iterators of slurp/block.py, the source of slurp/source.py, the        *)
(* channel consumer, throttle, worker, tracker and lock of                 *)
(* slurp/channel.py and the watcher of slurp/__init__.py.                  *)
(*                                                                         *)
(* Bytes are the one-character strings "a", "p" and "n":                   *)
(*   "n" is the terminal ('\n'),                                           *)
(*   "p" is what the prefix regex of a multi-line source matches,          *)
(*   "a" is what the pattern of a source matches at the start of a block.  *)
(* Offsets are 0-based byte positions as in the code; sequences are        *)
(* 1-based, so the byte at offset k is content[k + 1].                     *)
(***************************************************************************)
EXTENDS Integers, Sequences, FiniteSets, TLC

(***************************************************************************)
(* Bounds of the model.                                                    *)
(***************************************************************************)
\* longest byte stream handed to a stand-alone block iterator
MaxContent == 5
\* largest read_size / max_buffer_size a stand-alone block iterator is given
MaxReadSize == 6
MaxBufferSize == 6

Bytes == {"a", "p", "n"}

\* terminal='\n', the default of Blocks, LineIterator and Source
Terminal == <<"n">>

\* the prefix regex of a multi-line source: matches the single byte "p"
PrefixByte == "p"

\* the value the code writes as None
None == -1

Min(a, b) == IF a < b THEN a ELSE b

\* every sequence over S of length at most n
SeqsUpTo(S, n) == UNION {[1..k -> S] : k \in 0..n}

\* python's s[i:] for a 0-based i with 0 <= i
SliceFrom(s, i) == SubSeq(s, i + 1, Len(s))

\* python's s[:i] for a 0-based i with 0 <= i
SliceTo(s, i) == SubSeq(s, 1, Min(i, Len(s)))

\* python's s[i:j] for 0-based i, j with 0 <= i
Slice(s, i, j) == SubSeq(s, i + 1, Min(j, Len(s)))

\* python's s[-k:] for k >= 1: the last k bytes, all of s when it is shorter
Suffix(s, k) == IF Len(s) <= k THEN s ELSE SubSeq(s, Len(s) - k + 1, Len(s))

\* bytearray.find(t, from): the least 0-based index >= from where t occurs
\* in buf, or -1
Find(buf, t, from) ==
    LET hits == {i \in from..(Len(buf) - Len(t)) : Slice(buf, i, i + Len(t)) = t}
    IN  IF hits = {} THEN -1 ELSE CHOOSE i \in hits : \A j \in hits : i <= j

\* preamble.search(buf, from): the 0-based start of the first match of the
\* prefix regex at or after from, or -1 (a match is one byte long)
PreambleSearch(buf, from) == Find(buf, <<PrefixByte>>, from)

(***************************************************************************)
(* The block iterators.  An iterator is the record                         *)
(*   [pos, buf, eof, discard] of BlockIterator.__init__ plus fpos, the     *)
(*   position of the file object it reads (fo.tell()).                     *)
(* A configuration is [mode, strict, read_size, max_buffer_size].          *)
(***************************************************************************)
NoBlock == [begin |-> None, end |-> None, raw |-> <<>>]

\* BlockIterator.__init__ over a file object positioned at fpos
NewIterator(fpos) ==
    [pos |-> fpos, buf |-> <<>>, eof |-> FALSE, discard |-> FALSE, fpos |-> fpos]

\* fo.read(n) at position fpos of a file holding content
FileRead(content, fpos, n) == Slice(content, fpos, fpos + n)

\* what _parse returns when it finds no block: None
Parsed_none(it) == [it |-> it, res |-> "none", blk |-> NoBlock]

\* LineIterator._parse were it to count one byte more than it cuts
LineIterator_cut_off(it, index) ==
    LET idx == index + Len(Terminal)
    IN  IF index = -1
        THEN Parsed_none(it)
        ELSE [it |-> [it EXCEPT !.buf = SliceFrom(it.buf, idx), !.pos = it.pos + idx + 1],
              res |-> "hit",
              blk |-> [begin |-> it.pos, end |-> it.pos + idx,
                       raw |-> SliceTo(it.buf, idx)]]

\* LineIterator._parse after `index = self.buf.find(self.terminal)`
LineIterator_cut(it, index) ==
    LET idx == index + Len(Terminal)
    IN  IF index = -1
        THEN Parsed_none(it)
        ELSE [it |-> [it EXCEPT !.buf = SliceFrom(it.buf, idx), !.pos = it.pos + idx],
              res |-> "hit",
              blk |-> [begin |-> it.pos, end |-> it.pos + idx,
                       raw |-> SliceTo(it.buf, idx)]]

\* LineIterator._parse: res is "hit" with blk, or "none"
LineIterator_parse(it) == LineIterator_cut(it, Find(it.buf, Terminal, 0))

\* MultiLineIterator._parse from `raw = ...` on: the block up to the next
\* preamble, or all of the buffer when there is none (next = -1)
MultiLineIterator_emit(it, next) ==
    LET raw == IF next # -1 THEN SliceTo(it.buf, next) ELSE it.buf
    IN  [it |-> [it EXCEPT !.buf = IF next # -1 THEN SliceFrom(it.buf, next) ELSE <<>>,
                           !.pos = it.pos + Len(raw)],
         res |-> "hit",
         blk |-> [begin |-> it.pos, end |-> it.pos + Len(raw), raw |-> raw]]

\* MultiLineIterator._parse after the search for the next preamble
MultiLineIterator_next(it, next, eof) ==
    IF next # -1
    THEN IF Slice(it.buf, next - Len(Terminal), next) = Terminal
         THEN MultiLineIterator_emit(it, next)
         ELSE Parsed_none(it)
    ELSE IF ~eof THEN Parsed_none(it)
         ELSE IF Suffix(it.buf, Len(Terminal)) # Terminal THEN Parsed_none(it)
              ELSE MultiLineIterator_emit(it, next)

\* MultiLineIterator._parse after the search for the first preamble.  The
\* match object keeps the offsets of the buffer it was found in, so after a
\* leading partial block is cut the search for the next preamble starts at
\* the old match.end(), start + 1.
MultiLineIterator_first(it, start, strict, eof) ==
    LET cut == [it EXCEPT !.buf = SliceFrom(it.buf, start), !.pos = it.pos + start]
    IN  IF start = -1 THEN Parsed_none(it)
        ELSE IF start # 0 /\ strict THEN [it |-> it, res |-> "raise", blk |-> NoBlock]
        ELSE MultiLineIterator_next(cut, PreambleSearch(cut.buf, start + 1), eof)

\* MultiLineIterator._parse: res is "hit" with blk, "none", or "raise" (a
\* partial block in strict mode)
MultiLineIterator_parse(it, strict, eof) ==
    MultiLineIterator_first(it, PreambleSearch(it.buf, 0), strict, eof)

\* self._parse(eof) of the configured iterator class
Parse(it, cfg, eof) ==
    IF cfg.mode = "line" THEN LineIterator_parse(it)
    ELSE MultiLineIterator_parse(it, cfg.strict, eof)

\* the read of one loop iteration: read_size bytes, less when the buffer
\* has less room; eof when the read comes back short
BlockIterator_read(it, data, read_size) ==
    [it EXCEPT !.eof = (Len(data) # read_size),
               !.buf = it.buf \o data,
               !.fpos = it.fpos + Len(data)]

BlockIterator_fill(it, content, read_size) ==
    BlockIterator_read(it, FileRead(content, it.fpos, read_size), read_size)

RECURSIVE ReadLoop(_, _, _, _)
\* one loop iteration after `result = self._parse(self.eof)`.  skipped
\* records that the loop dropped a buffer or a parsed block on the way (the
\* two `discard` places).
BlockIterator_result(r, content, cfg, skipped) ==
    IF r.res = "raise"
    THEN [it |-> r.it, res |-> "raise", blk |-> NoBlock, skipped |-> skipped]
    ELSE IF r.res = "none"
    THEN IF Len(r.it.buf) >= cfg.max_buffer_size
         THEN IF cfg.strict
              THEN [it |-> r.it, res |-> "raise", blk |-> NoBlock, skipped |-> skipped]
              ELSE ReadLoop([r.it EXCEPT !.discard = TRUE, !.buf = <<>>],
                            content, cfg, TRUE)
         ELSE ReadLoop(r.it, content, cfg, skipped)
    ELSE IF r.it.discard
         THEN ReadLoop([r.it EXCEPT !.discard = FALSE], content, cfg, TRUE)
         ELSE [it |-> r.it, res |-> "block", blk |-> r.blk, skipped |-> skipped]

\* self._parse(self.eof) on the filled buffer
BlockIterator_parse(it, content, cfg, skipped) ==
    BlockIterator_result(Parse(it, cfg, it.eof), content, cfg, skipped)

\* The while loop of BlockIterator.next
ReadLoop(it, content, cfg, skipped) ==
    IF it.eof
    THEN [it |-> it, res |-> "stop", blk |-> NoBlock, skipped |-> skipped]
    ELSE BlockIterator_parse(
             BlockIterator_fill(it, content,
                 Min(cfg.read_size, cfg.max_buffer_size - Len(it.buf))),
             content, cfg, skipped)

\* BlockIterator.next after the parse of what the buffer already holds
BlockIterator_buffered(first, content, cfg) ==
    IF first.res = "hit"
    THEN [it |-> first.it, res |-> "block", blk |-> first.blk, skipped |-> FALSE]
    ELSE IF first.res = "raise"
    THEN [it |-> first.it, res |-> "raise", blk |-> NoBlock, skipped |-> FALSE]
    ELSE ReadLoop(first.it, content, cfg, FALSE)

\* BlockIterator.next: res is "block" with blk, "stop" (StopIteration) or
\* "raise" (ValueError)
BlockIterator_next(it, content, cfg) ==
    BlockIterator_buffered(
        IF it.buf # <<>> THEN Parse(it, cfg, it.eof) ELSE Parsed_none(it),
        content, cfg)

(***************************************************************************)
(* A stand-alone block iterator: `for block in Blocks(fo, ...)` over one   *)
(* byte stream, one next() per step.                                       *)
(***************************************************************************)
VARIABLES
    bContent,   \* the bytes of the file the iterator reads
    bCfg,       \* [mode, strict, read_size, max_buffer_size]
    bIt,        \* the iterator
    bRes,       \* "iter" while iterating, then "stop" or "raise"
    bLast,      \* the block the last next() returned, NoBlock before the first
    bPrev,      \* the block returned before bLast, NoBlock before the second
    bSkipped,   \* the last next() dropped a buffer or a parsed block
    bOut        \* the blocks returned so far, in order

blockVars == <<bContent, bCfg, bIt, bRes, bLast, bPrev, bSkipped, bOut>>

BlockConfigs ==
    [mode : {"line", "multi"}, strict : BOOLEAN,
     read_size : 1..MaxReadSize, max_buffer_size : 2..MaxBufferSize]

\* Blocks(fo, ...).__iter__() over a freshly opened file
BlocksInit ==
    /\ bContent \in SeqsUpTo(Bytes, MaxContent)
    /\ bCfg \in BlockConfigs
    /\ bIt = NewIterator(0)
    /\ bRes = "iter"
    /\ bLast = NoBlock
    /\ bPrev = NoBlock
    /\ bSkipped = FALSE
    /\ bOut = <<>>

\* the state of the block variables while the channel runs
BlocksIdle ==
    /\ bContent = <<>>
    /\ bCfg = [mode |-> "line", strict |-> FALSE, read_size |-> 1, max_buffer_size |-> 2]
    /\ bIt = NewIterator(0)
    /\ bRes = "stop"
    /\ bLast = NoBlock
    /\ bPrev = NoBlock
    /\ bSkipped = FALSE
    /\ bOut = <<>>

\* one iteration of `for block in blocks`: next() gave r, a block
Blocks_yield(r) ==
    /\ r.res = "block"
    /\ bIt' = r.it
    /\ bPrev' = bLast
    /\ bLast' = r.blk
    /\ bSkipped' = r.skipped
    /\ bOut' = Append(bOut, r.blk)

BlocksNext ==
    /\ bRes = "iter"
    /\ Blocks_yield(BlockIterator_next(bIt, bContent, bCfg))
    /\ UNCHANGED <<bContent, bCfg, bRes>>

\* next() raised StopIteration or ValueError (r): the for loop is over
Blocks_end(r) ==
    /\ r.res # "block"
    /\ bIt' = r.it
    /\ bRes' = r.res

BlocksEnd ==
    /\ bRes = "iter"
    /\ Blocks_end(BlockIterator_next(bIt, bContent, bCfg))
    /\ UNCHANGED <<bContent, bCfg, bLast, bPrev, bSkipped, bOut>>

(***************************************************************************)
(* The channel: files, one source, the sink, the tracker and a consumer.   *)
(***************************************************************************)
\* the files the channel's source matches
Paths == {"p", "q"}

\* longest file, in bytes
MaxFile == 4
\* consume calls in one behaviour
MaxCalls == 3
\* largest strict_slack and batch_size a channel is configured with
MaxSlack == 1
MaxBatch == 2
\* errors a consumer counts before the model stops a consume that keeps
\* failing on the same block
MaxErrors == 3

\* Source(read_size=1024, buffer_size=1048576)
ReadSize == 1024
BufferSize == 1048576

VARIABLES
    files,      \* path -> the bytes of the file
    channel,    \* the settings of the channel and of its source
    tracker,    \* Channel.tracker: path -> offset, None when the path has no row
    consumer,   \* the ChannelConsumer: slack, count, bytes, pending, errors,
                \* flush_at (TRUE when a time is set), pending_tracker
    pc,         \* "idle", "step" (inside ChannelConsumer.step) or "exit" (leaving
                \* the `with` of Channel.consume)
    call,       \* the frame of the running __call__/step
    outcome,    \* how the last consume ended: "none", "running", "returned",
                \* "raised", or "enoent" when its file could not be opened
    ncalls,     \* consume calls started
    \* history of what the sink was given
    gBuffered,  \* path -> ends of the blocks the sink reported pending with no
                \* successful sink.flush() since
    gFailed,    \* path -> ends of the blocks for which sink(form, block) raised
                \* and that were not acknowledged since
    gLastAck,   \* path -> end of the last block the sink acknowledged, or None
    gPassed,    \* path -> end of the last block the sink took from this consumer;
                \* 0 again once the caller rewinds the path or a flush fails
                \* while the sink holds blocks of the path
    gInOrder,   \* no block was handed to the sink that begins before gPassed
    gCall,      \* the running (or last) consume: what it was given and the blocks
                \* it handed to the sink
    gCleanLen,  \* path -> the file's length when the last Channel.consume(path)
                \* returned cleanly, None once the path is reset or re-read
    gAfterReset, \* path -> reset(path) was the last operation on the path
    gSlack      \* since: the exceptions met with a known block that the
                \* consumer tolerated since it was made or since the sink
                \* last acknowledged a block; thrown: what the running (or
                \* last) consume was left with, "block" for an exception met
                \* with a known block, "noblock" for one met with none

sinkHistory == <<gBuffered, gFailed, gLastAck, gPassed, gInOrder>>
chanVars == <<files, channel, tracker, consumer, pc, call, outcome, ncalls,
              gBuffered, gFailed, gLastAck, gPassed, gInOrder, gCall, gCleanLen,
              gAfterReset, gSlack>>
Max(S) == CHOOSE x \in S : \A y \in S : y <= x

\* Channel(strict, strict_slack, batch_size, backfill, flush_frequency) with
\* one ChannelSource (strict); mode says who drives the consumer: "api" is
\* Channel.consume (a fresh consumer per call, flushed on leaving), "worker"
\* is the consumer a ChannelWorker keeps for its life.  strict_slack is only
\* read by a strict channel, so a lax channel keeps the default 0;
\* flush_frequency (TRUE: a number of seconds, FALSE: the default None) only
\* matters between the calls of a consumer that outlives them, so
\* Channel.consume is followed with the default.
ChannelConfigs ==
    {c \in [backfill : BOOLEAN, strict : BOOLEAN, strict_slack : 0..MaxSlack,
            batch_size : 1..MaxBatch, src_strict : BOOLEAN,
            flush_frequency : BOOLEAN, mode : {"api", "worker"}] :
        /\ c.strict \/ c.strict_slack = 0
        /\ c.mode = "worker" \/ ~c.flush_frequency}

\* Source.blocks: a line source with the source's sizes and strict flag
SourceCfg ==
    [mode |-> "line", strict |-> channel.src_strict,
     read_size |-> ReadSize, max_buffer_size |-> BufferSize]

\* self.pattern.match(block.raw) for the pattern "a"
PatternMatch(raw) == raw # <<>> /\ raw[1] = "a"

\* Source.forms: the next (form, block) the generator yields, "stop" or
\* "raise".  Blocks that do not match are skipped unless the source is strict.
RECURSIVE Source_forms(_, _, _)
\* the loop of Source.forms were it to end at a block that does not match
Source_match_break(r, content, cfg) ==
    IF r.res # "block" THEN r
    ELSE IF PatternMatch(r.blk.raw) THEN r
    ELSE IF cfg.strict THEN [r EXCEPT !.res = "raise", !.blk = NoBlock]
    ELSE [r EXCEPT !.res = "stop", !.blk = NoBlock]

\* the body of the loop of Source.forms for what self.blocks(fo) gave, r
Source_match(r, content, cfg) ==
    IF r.res # "block" THEN r
    ELSE IF PatternMatch(r.blk.raw) THEN r
    ELSE IF cfg.strict THEN [r EXCEPT !.res = "raise", !.blk = NoBlock]
    ELSE Source_forms(r.it, content, cfg)

Source_forms(it, content, cfg) ==
    Source_match(BlockIterator_next(it, content, cfg), content, cfg)

(***************************************************************************)
(* A stand-alone Source: `for form, block in source.forms(fo)` over one    *)
(* byte stream with form=None and filter=None, one yield per step.  The    *)
(* stream, the configuration and the iterator are those of the block       *)
(* variables.                                                              *)
(***************************************************************************)
VARIABLES
    fYielded    \* the blocks forms(fo) has yielded, in order

formVars == <<fYielded>>

FormsInit == BlocksInit /\ fYielded = <<>>

\* the state of the form variables while another component runs
FormsIdle == fYielded = <<>>

\* forms(fo) yields (form, block), r
Forms_yield(r) ==
    /\ r.res = "block"
    /\ bIt' = r.it
    /\ fYielded' = Append(fYielded, r.blk)

FormsNext ==
    /\ bRes = "iter"
    /\ Forms_yield(Source_forms(bIt, bContent, bCfg))
    /\ UNCHANGED <<bContent, bCfg, bRes, bLast, bPrev, bSkipped, bOut>>

\* forms(fo) is exhausted or raises, r
Forms_end(r) ==
    /\ r.res # "block"
    /\ bIt' = r.it
    /\ bRes' = r.res

FormsEnd ==
    /\ bRes = "iter"
    /\ Forms_end(Source_forms(bIt, bContent, bCfg))
    /\ UNCHANGED <<bContent, bCfg, bLast, bPrev, bSkipped, bOut, fYielded>>

NoPending == [p \in Paths |-> None]

\* ChannelConsumer.__init__
NewConsumer ==
    [slack |-> channel.strict_slack, count |-> 0, bytes |-> 0, pending |-> 0,
     errors |-> 0, flush_at |-> FALSE, pending_tracker |-> NoPending]

CallIdle ==
    [path |-> "p", it |-> NewIterator(0), block |-> NoBlock, count |-> 0,
     pending |-> 0, bytes |-> 0, errors |-> 0, raised |-> FALSE]

NoCall ==
    [path |-> "p", kind |-> "none", forms |-> <<>>, acked |-> 0, taken |-> 0,
     tr0 |-> None, len0 |-> 0,
     prevLen |-> None, afterReset |-> FALSE]

\* ChannelSource.open were it to overlook the tracker
ChannelSource_open_untracked(path, offset) ==
    IF offset # None /\ offset # 0 THEN offset
    ELSE IF ~channel.backfill THEN Len(files[path])
    ELSE 0

\* ChannelSource.open were it to read every untracked file from its start
ChannelSource_open_backfilled(path, offset) ==
    IF offset # None /\ offset # 0 THEN offset
    ELSE IF tracker[path] # None THEN tracker[path]
    ELSE 0

\* ChannelSource.open: where the file object is positioned
ChannelSource_open(path, offset) ==
    IF offset # None /\ offset # 0 THEN offset
    ELSE IF tracker[path] # None THEN tracker[path]
    ELSE IF ~channel.backfill THEN Len(files[path])
    ELSE 0

\* ChannelConsumer.flushed
ChannelConsumer_flushed(c) ==
    [c EXCEPT !.count = c.count + c.pending, !.pending = 0, !.flush_at = FALSE,
              !.slack = channel.strict_slack, !.pending_tracker = NoPending]

\* the loop of ChannelConsumer.flush that writes the pending offsets
CommitPending(trk, pending_tracker) ==
    [p \in Paths |-> IF pending_tracker[p] # None THEN pending_tracker[p] ELSE trk[p]]

\* ChannelConsumer.error were it to raise with one error of slack left
ErrorRaises_early(c) == channel.strict /\ c.slack <= 1

\* ChannelConsumer.error raises again: a strict channel out of slack
ErrorRaises(c) == channel.strict /\ c.slack <= 0

\* ChannelConsumer.error when it tolerates the error
ChannelConsumer_error(c) ==
    [c EXCEPT !.slack = c.slack - 1, !.errors = c.errors + c.pending + 1,
              !.pending = 0, !.flush_at = FALSE, !.pending_tracker = NoPending]

\* the writer appends to a file: a record that matches, one that does not, or
\* the start of a record whose terminal is written later
Chunks(content) ==
    IF content # <<>> /\ content[Len(content)] # "n"
    THEN {<<"n">>}
    ELSE {<<"a", "n">>, <<"p", "n">>, <<"a">>}

(***************************************************************************)
(* Operations on the files and the tracker.                                *)
(***************************************************************************)
\* The writer appends to a file.  Files are append-only and a consume reads
\* a file to its end in one read (ReadSize exceeds MaxFile), so a write that
\* falls inside a consume is seen as one before it or one after it: writes
\* are taken between consumes, and none after the last consume of a run.
Written == Len(files["p"]) + Len(files["q"])

Write(p) ==
    /\ pc = "idle"
    /\ ncalls < MaxCalls
    /\ \E chunk \in Chunks(files[p]) :
         /\ Written + Len(chunk) <= MaxFile
         /\ files' = [files EXCEPT ![p] = @ \o chunk]
    /\ UNCHANGED <<channel, tracker, consumer, pc, call, outcome, ncalls,
                   sinkHistory, gCall, gCleanLen, gAfterReset, gSlack>>
    /\ UNCHANGED blockVars

\* ChannelSource.reset were it to keep the row of the path
ChannelSource_reset_kept(p) ==
    /\ pc = "idle"
    /\ ncalls < MaxCalls
    /\ channel.mode = "api"
    /\ gAfterReset' = [gAfterReset EXCEPT ![p] = TRUE]
    /\ gCleanLen' = [gCleanLen EXCEPT ![p] = None]
    /\ gPassed' = [gPassed EXCEPT ![p] = 0]
    /\ UNCHANGED <<files, channel, tracker, consumer, pc, call, outcome, ncalls,
                   gBuffered, gFailed, gLastAck, gInOrder, gCall, gSlack>>
    /\ UNCHANGED blockVars

\* ChannelSource.reset (slurp.reset, `consume(..., reset=True)`): the row of
\* the path is deleted
ChannelSource_reset(p) ==
    /\ pc = "idle"
    /\ ncalls < MaxCalls
    /\ channel.mode = "api"
    /\ tracker' = [tracker EXCEPT ![p] = None]
    /\ gAfterReset' = [gAfterReset EXCEPT ![p] = TRUE]
    /\ gCleanLen' = [gCleanLen EXCEPT ![p] = None]
    /\ gPassed' = [gPassed EXCEPT ![p] = 0]
    /\ UNCHANGED <<files, channel, consumer, pc, call, outcome, ncalls,
                   gBuffered, gFailed, gLastAck, gInOrder, gCall, gSlack>>
    /\ UNCHANGED blockVars

(***************************************************************************)
(* ChannelConsumer.__call__ and ChannelConsumer.step, one block per step.  *)
(***************************************************************************)
\* __call__ has a file object at fpos and enters step
Enter(p, kind, fpos, cons) ==
    /\ pc' = "step"
    /\ consumer' = cons
    /\ call' = [CallIdle EXCEPT !.path = p, !.it = NewIterator(fpos)]
    /\ outcome' = "running"
    /\ ncalls' = ncalls + 1
    /\ gCall' = [path |-> p, kind |-> kind, forms |-> <<>>, acked |-> 0,
                 taken |-> 0, tr0 |-> tracker[p],
                 len0 |-> Len(files[p]),
                 prevLen |-> IF kind = "path" THEN gCleanLen[p] ELSE None,
                 afterReset |-> (kind = "path" /\ gAfterReset[p])]
    /\ gAfterReset' = [gAfterReset EXCEPT ![p] = FALSE]
    /\ gCleanLen' = [gCleanLen EXCEPT ![p] = None]
    /\ gPassed' = IF channel.mode = "api" THEN [q \in Paths |-> 0]
                  ELSE IF kind = "fo" THEN [gPassed EXCEPT ![p] = 0]
                  ELSE gPassed
    /\ gSlack' = [gSlack EXCEPT !.thrown = "none"]
    /\ UNCHANGED <<files, channel, tracker, gBuffered, gFailed, gLastAck, gInOrder>>
    /\ UNCHANGED blockVars

\* ChannelConsumer.flush_expired when the time is still before flush_at:
\* blocks are pending and no flush_at is set
FlushExpired == consumer.pending > 0 /\ ~consumer.flush_at

\* consume(path): Channel.consume(path) with a fresh consumer, or the worker's
\* consumer called with the path of an event, which ChannelWorker.step does
\* once flush_expired is false.  The file is opened at the pending offset,
\* else the tracked offset, else by backfill.
ConsumePath(p) ==
    /\ pc = "idle"
    /\ ncalls < MaxCalls
    /\ channel.mode = "worker" => ~FlushExpired
    /\ LET cons == IF channel.mode = "api" THEN NewConsumer ELSE consumer
       IN  Enter(p, "path", ChannelSource_open(p, cons.pending_tracker[p]), cons)

\* Channel.consume(fo) with a file object the caller has just opened
ConsumeFo(p) ==
    /\ pc = "idle"
    /\ ncalls < MaxCalls
    /\ channel.mode = "api"
    /\ Enter(p, "fo", 0, NewConsumer)

\* step and __call__ are left, by a return or by an exception
Leave(cl, raised) ==
    IF channel.mode = "api"
    THEN /\ pc' = "exit"
         /\ call' = [cl EXCEPT !.raised = raised]
         /\ outcome' = outcome
    ELSE /\ pc' = "idle"
         /\ call' = CallIdle
         /\ outcome' = IF raised THEN "raised" ELSE "returned"

\* the except clause of step for an exception met with `block` = b, the
\* consumer being cons and the frame cl: raise when there is no block or
\* error() raises, else error() and continue with a new forms(fo)
Handle(cons, cl, b) ==
    IF b = NoBlock \/ ErrorRaises(cons)
    THEN /\ consumer' = cons
         /\ tracker' = tracker
         /\ gSlack' = [gSlack EXCEPT
                          !.thrown = IF b = NoBlock THEN "noblock" ELSE "block"]
         /\ Leave(cl, TRUE)
    ELSE /\ consumer' = ChannelConsumer_error(cons)
         /\ gSlack' = [gSlack EXCEPT !.since = @ + 1]
         /\ tracker' = [tracker EXCEPT ![cl.path] = b.end]
         /\ call' = [cl EXCEPT !.it = NewIterator(b.end),
                               !.errors = cl.errors + cl.pending + 1,
                               !.pending = 0]
         /\ pc' = "step"
         /\ outcome' = outcome

\* what forms(fo) gives next in the running step
NextForm == Source_forms(call.it, files[call.path], SourceCfg)

\* the blocks the sink holds to be flushed
Held(buffered) == Cardinality(buffered["p"]) + Cardinality(buffered["q"])

\* the sink is called with block b of the running consume; acked: the blocks
\* the sink acknowledges in the call or in the flush that follows it, taken:
\* the bytes of b when the sink took it without an error
Handed(b, acked, taken) ==
    /\ gCall' = [gCall EXCEPT !.forms = Append(@, <<b.begin, b.end>>),
                              !.acked = @ + acked, !.taken = @ + taken]
    /\ gInOrder' = (gInOrder /\ b.begin >= gPassed[call.path])

\* the sink took block b of path p, acknowledged or to be flushed
Accepted(p, b, acked) ==
    /\ Handed(b, acked, b.end - b.begin)
    /\ gFailed' = [gFailed EXCEPT ![p] = @ \ {b.end}]
    /\ gPassed' = [gPassed EXCEPT ![p] = b.end]

\* sink.flush() raised: the blocks the sink holds may be passed again
FlushFails(buffered) ==
    gPassed' = [q \in Paths |-> IF buffered[q] # {} THEN 0 ELSE gPassed[q]]

\* sink.flush() returned: every block the sink held is acknowledged
FlushAcks(buffered) ==
    /\ gBuffered' = [q \in Paths |-> {}]
    /\ gLastAck' = [q \in Paths |->
                      IF buffered[q] # {} THEN Max(buffered[q]) ELSE gLastAck[q]]

\* the sink acknowledged a block, or the consumer is dropped
Acknowledged == gSlack' = [gSlack EXCEPT !.since = 0]

\* the frame after block b, of the iterator state it, went to the sink
Counted(it, b, count, pending) ==
    [call EXCEPT !.it = it, !.block = b, !.count = count, !.pending = pending,
                 !.bytes = @ + (b.end - b.begin)]

\* the try body for (form, block) = r where sink(form, block) returns falsy
ChannelConsumer_ack(r, p) ==
    /\ r.res = "block"
    /\ tracker' = [tracker EXCEPT ![p] = r.blk.end]
    /\ consumer' = [ChannelConsumer_flushed(consumer) EXCEPT
                        !.bytes = @ + (r.blk.end - r.blk.begin)]
    /\ call' = Counted(r.it, r.blk, call.count + 1, 0)
    /\ Accepted(p, r.blk, 1)
    /\ gBuffered' = [gBuffered EXCEPT ![p] = @ \ {r.blk.end}]
    /\ gLastAck' = [gLastAck EXCEPT ![p] = r.blk.end]
    /\ Acknowledged

\* sink(form, block) returns falsy: the block is emitted
StepAck ==
    /\ pc = "step"
    /\ ChannelConsumer_ack(NextForm, call.path)
    /\ UNCHANGED <<files, channel, pc, outcome, ncalls, gCleanLen, gAfterReset>>
    /\ UNCHANGED blockVars

\* the consumer once the block of path p that ends at end is pending;
\* flush_at is set when it is not and the channel has a flush_frequency
Pended(p, end) ==
    [consumer EXCEPT !.pending_tracker[p] = end, !.pending = @ + 1,
                     !.flush_at = @ \/ channel.flush_frequency]

\* the try body where sink(form, block) returns truthy and the batch is not
\* full
ChannelConsumer_pending(r, p) ==
    /\ r.res = "block"
    /\ consumer' = [Pended(p, r.blk.end) EXCEPT
                        !.bytes = @ + (r.blk.end - r.blk.begin)]
    /\ call' = Counted(r.it, r.blk, call.count, call.pending + 1)
    /\ Accepted(p, r.blk, 0)
    /\ gBuffered' = [gBuffered EXCEPT ![p] = @ \cup {r.blk.end}]

\* sink(form, block) returns truthy and the batch is not yet full
StepPending ==
    /\ pc = "step"
    /\ consumer.pending + 1 < channel.batch_size
    /\ ChannelConsumer_pending(NextForm, call.path)
    /\ UNCHANGED <<files, channel, tracker, pc, outcome, ncalls, gLastAck,
                   gCleanLen, gAfterReset, gSlack>>
    /\ UNCHANGED blockVars

\* the try body where the batch is full and self.flush() succeeds
ChannelConsumer_batch(r, p) ==
    /\ r.res = "block"
    /\ tracker' = CommitPending(tracker, Pended(p, r.blk.end).pending_tracker)
    /\ consumer' = [ChannelConsumer_flushed(Pended(p, r.blk.end)) EXCEPT
                        !.bytes = @ + (r.blk.end - r.blk.begin)]
    /\ call' = Counted(r.it, r.blk, call.count + call.pending + 1, 0)
    /\ Accepted(p, r.blk, Held([gBuffered EXCEPT ![p] = @ \cup {r.blk.end}]))
    /\ FlushAcks([gBuffered EXCEPT ![p] = @ \cup {r.blk.end}])
    /\ Acknowledged

\* sink(form, block) returns truthy, the batch is full and flush() succeeds
StepPendingFlush ==
    /\ pc = "step"
    /\ consumer.pending + 1 >= channel.batch_size
    /\ ChannelConsumer_batch(NextForm, call.path)
    /\ UNCHANGED <<files, channel, pc, outcome, ncalls, gCleanLen, gAfterReset>>
    /\ UNCHANGED blockVars

\* the try body where the batch is full and self.flush() raises
ChannelConsumer_batch_raise(r, p) ==
    /\ r.res = "block"
    /\ Handle(Pended(p, r.blk.end),
              [call EXCEPT !.it = r.it, !.block = r.blk, !.pending = @ + 1],
              r.blk)
    /\ Handed(r.blk, 0, 0)
    /\ gFailed' = [gFailed EXCEPT ![p] = @ \ {r.blk.end}]
    /\ gBuffered' = [gBuffered EXCEPT ![p] = @ \cup {r.blk.end}]
    /\ FlushFails([gBuffered EXCEPT ![p] = @ \cup {r.blk.end}])

\* sink(form, block) returns truthy, the batch is full and flush() raises
StepPendingFlushRaise ==
    /\ pc = "step"
    /\ consumer.pending + 1 >= channel.batch_size
    /\ ChannelConsumer_batch_raise(NextForm, call.path)
    /\ UNCHANGED <<files, channel, ncalls, gLastAck, gCleanLen, gAfterReset>>
    /\ UNCHANGED blockVars

\* the try body where sink(form, block) raises
ChannelConsumer_sink_raise(r, p) ==
    /\ r.res = "block"
    /\ Handle(consumer, [call EXCEPT !.it = r.it, !.block = r.blk], r.blk)
    /\ Handed(r.blk, 0, 0)
    /\ gFailed' = [gFailed EXCEPT ![p] = @ \cup {r.blk.end}]

\* sink(form, block) raises
StepSinkRaise ==
    /\ pc = "step"
    /\ ChannelConsumer_sink_raise(NextForm, call.path)
    /\ UNCHANGED <<files, channel, ncalls, gBuffered, gLastAck, gPassed,
                   gCleanLen, gAfterReset>>
    /\ UNCHANGED blockVars

\* forms(fo) raised, r (a strict source met a block its pattern does not
\* match): `block` is still the block of the previous iteration
ChannelConsumer_forms_raise(r) ==
    /\ r.res = "raise"
    /\ Handle(consumer, [call EXCEPT !.it = r.it], call.block)

\* forms(fo) raises
StepFormsRaise ==
    /\ pc = "step"
    /\ consumer.errors < MaxErrors
    /\ ChannelConsumer_forms_raise(NextForm)
    /\ UNCHANGED <<files, channel, ncalls, sinkHistory, gCall, gCleanLen,
                   gAfterReset>>
    /\ UNCHANGED blockVars

\* forms(fo) is exhausted, r: step returns and __call__ tracks fo.tell()
\* when the step counted no bytes
ChannelConsumer_stop(r) ==
    /\ r.res = "stop"
    /\ tracker' = IF call.bytes = 0
                  THEN [tracker EXCEPT ![call.path] = r.it.fpos]
                  ELSE tracker
    /\ Leave([call EXCEPT !.it = r.it], FALSE)

StepStop ==
    /\ pc = "step"
    /\ ChannelConsumer_stop(NextForm)
    /\ UNCHANGED <<files, channel, consumer, ncalls, sinkHistory, gCall,
                   gCleanLen, gAfterReset, gSlack>>
    /\ UNCHANGED blockVars

(***************************************************************************)
(* ChannelConsumer.flush outside step.                                     *)
(***************************************************************************)
\* Channel.consume is over: how it ended and what that means for the path
Done(result) ==
    /\ pc' = "idle"
    /\ call' = CallIdle
    /\ outcome' = result
    /\ gCleanLen' = [gCleanLen EXCEPT ![call.path] =
                       IF result = "returned" /\ gCall.kind = "path"
                       THEN Len(files[call.path]) ELSE None]
    /\ Acknowledged

\* __exit__ of the consumer of Channel.consume: flush() finds nothing pending
\* or sink.flush() succeeds; an exception of the body is raised again
ExitFlush ==
    /\ pc = "exit"
    /\ tracker' = IF consumer.pending > 0
                  THEN CommitPending(tracker, consumer.pending_tracker)
                  ELSE tracker
    /\ consumer' = ChannelConsumer_flushed(consumer)
    /\ IF consumer.pending > 0
       THEN FlushAcks(gBuffered)
       ELSE UNCHANGED <<gBuffered, gLastAck>>
    /\ gCall' = [gCall EXCEPT !.acked = @ + IF consumer.pending > 0
                                            THEN Held(gBuffered) ELSE 0]
    /\ Done(IF call.raised THEN "raised" ELSE "returned")
    /\ UNCHANGED <<files, channel, ncalls, gFailed, gPassed, gInOrder,
                   gAfterReset>>
    /\ UNCHANGED blockVars

\* __exit__ of the consumer of Channel.consume: sink.flush() raises
ExitFlushRaise ==
    /\ pc = "exit"
    /\ consumer.pending > 0
    /\ Done("raised")
    /\ FlushFails(gBuffered)
    /\ UNCHANGED <<files, channel, tracker, consumer, ncalls, gBuffered, gFailed,
                   gLastAck, gInOrder, gCall, gAfterReset>>
    /\ UNCHANGED blockVars

\* ChannelWorker.step finds flush_expired (blocks are pending and flush_at
\* is None or, as time went by, passed) and flush() succeeds
TimedFlush ==
    /\ pc = "idle"
    /\ channel.mode = "worker"
    /\ consumer.pending > 0
    /\ tracker' = CommitPending(tracker, consumer.pending_tracker)
    /\ consumer' = ChannelConsumer_flushed(consumer)
    /\ FlushAcks(gBuffered)
    /\ Acknowledged
    /\ UNCHANGED <<files, channel, pc, call, outcome, ncalls, gFailed, gPassed,
                   gInOrder, gCall, gCleanLen, gAfterReset>>
    /\ UNCHANGED blockVars

\* ChannelWorker.step finds flush_expired and sink.flush() raises: the
\* consumer keeps what is pending
TimedFlushRaise ==
    /\ pc = "idle"
    /\ channel.mode = "worker"
    /\ consumer.pending > 0
    /\ outcome' = "raised"
    /\ FlushFails(gBuffered)
    /\ UNCHANGED <<files, channel, tracker, consumer, pc, call, ncalls, gBuffered,
                   gFailed, gLastAck, gInOrder, gCall, gCleanLen, gAfterReset,
                   gSlack>>
    /\ UNCHANGED blockVars

(***************************************************************************)
(* Throttle: the back-off a ChannelWorker engages when a step fails.       *)
(* Time is a clock of whole seconds.                                       *)
(***************************************************************************)
\* the largest clock value followed
MaxTime == 4
\* the largest throttle_duration, throttle_backoff and throttle_cap followed
MaxDuration == 2
MaxBackoff == 2
MaxCap == 4
\* invocations of a throttle followed without a reset
MaxCount == 3

VARIABLES
    now,        \* time.time()
    settings,   \* the channel's throttle_duration, throttle_backoff,
                \* throttle_cap (None: Throttle's default) and queue_size
    throttle,   \* the Throttle: count and expires_at (None when not set)
    gThrottle   \* k: invocations of the throttle since it was made or reset;
                \* d: the duration the last of them returned, None before it;
                \* cleared: a reset has cleared a count since the throttle
                \* was last invoked

throttleVars == <<now, settings, throttle, gThrottle>>

\* Throttle.__init__
NewThrottle == [count |-> 0, expires_at |-> None]

\* Throttle.reset
Throttle_reset(t) == [t EXCEPT !.count = 0, !.expires_at = None]

\* Throttle.__nonzero__ at time: the throttle it leaves and what it returns
Throttle_nonzero(t, time) ==
    IF t.expires_at = None \/ t.expires_at = 0 THEN [t |-> t, active |-> FALSE]
    ELSE IF t.expires_at < time
    THEN [t |-> [t EXCEPT !.expires_at = None], active |-> FALSE]
    ELSE [t |-> t, active |-> TRUE]

\* Throttle.__call__ were the back-off not to grow with count
Throttle_duration_flat(cfg, t) ==
    LET duration == cfg.duration + cfg.duration * cfg.backoff
    IN  IF cfg.cap # None /\ cfg.cap # 0 /\ duration > cfg.cap THEN cfg.cap
        ELSE duration

\* Throttle.__call__: the duration it computes and returns
Throttle_duration(cfg, t) ==
    LET duration == cfg.duration + cfg.duration * cfg.backoff * t.count
    IN  IF cfg.cap # None /\ cfg.cap # 0 /\ duration > cfg.cap THEN cfg.cap
        ELSE duration

\* Throttle.__call__ at time: the throttle it leaves
Throttle_call(cfg, t, time) ==
    [t EXCEPT !.expires_at = time + Throttle_duration(cfg, t),
              !.count = t.count + 1]

\* a throttle that was not invoked yet
NotInvoked == [k |-> 0, d |-> None, cleared |-> FALSE]

\* the throttle was reset
Cleared ==
    [k |-> 0, d |-> None, cleared |-> (gThrottle.cleared \/ throttle.count > 0)]

\* the throttle was invoked and returned d
Invoked(d) == gThrottle' = [k |-> gThrottle.k + 1, d |-> d, cleared |-> FALSE]

\* Throttle(duration, backoff, cap) for the settings followed
ThrottleSettings ==
    [duration : 1..MaxDuration, backoff : 0..MaxBackoff,
     cap : {None} \cup 0..MaxCap, queue_size : {1}]

ThrottleInit ==
    /\ now = 1
    /\ settings \in ThrottleSettings
    /\ throttle = NewThrottle
    /\ gThrottle = NotInvoked

\* the state of the throttle variables while no worker runs
ThrottleIdle ==
    /\ now = 1
    /\ settings = [duration |-> 1, backoff |-> 0, cap |-> None, queue_size |-> 1]
    /\ throttle = NewThrottle
    /\ gThrottle = NotInvoked

\* duration = self.throttle()
ThrottleInvoke ==
    /\ throttle.count < MaxCount
    /\ throttle' = Throttle_call(settings, throttle, now)
    /\ Invoked(Throttle_duration(settings, throttle))
    /\ UNCHANGED <<now, settings>>

\* self.throttle.reset()
ThrottleReset ==
    /\ throttle' = Throttle_reset(throttle)
    /\ gThrottle' = Cleared
    /\ UNCHANGED <<now, settings>>

\* `if self.throttle:`
ThrottleCheck ==
    /\ throttle' = Throttle_nonzero(throttle, now).t
    /\ UNCHANGED <<now, settings, gThrottle>>

\* a second goes by
Tick ==
    /\ now < MaxTime
    /\ now' = now + 1
    /\ UNCHANGED <<settings, throttle, gThrottle>>

(***************************************************************************)
(* ChannelWorker: the inbox the watcher thread posts events to and the     *)
(* event loop of the worker thread, which drives the channel's consumer.   *)
(* Queue.put and Queue.get are atomic; the watcher may post between any    *)
(* two of them.                                                            *)
(***************************************************************************)
\* the largest queue_size followed, and the events the watcher posts
MaxQueue == 1
MaxPosted == 3

VARIABLES
    queue,      \* ChannelWorker.queue: the events in the inbox, oldest first
    matches,    \* ChannelWorker.matches: the paths the match cache holds
    event,      \* the event step() took from the queue, NoEvent when none
    wpc,        \* where the worker is in step(): "poll" (before queue.get),
                \* "requeue" (the throttle is active), "dispatch" (the
                \* handler of the event runs) or "except" (the except clause)
    nposted,    \* events the watcher has posted
    watcher,    \* WatchEvent.matches: the paths the watcher thread has matched
                \* to the worker
    gPut        \* the last enqueue: its event and what it returned

workerVars == <<queue, matches, event, wpc, nposted, watcher, gPut>>

\* ChannelEvent.create(path), .modify(path), .delete(path)
ChannelEvent(path, flags) == [path |-> path, flags |-> flags]

NoEvent == ChannelEvent("p", "none")

\* the events of the path the watcher reports
Events == {ChannelEvent("p", f) : f \in {"create", "modify", "delete"}}

\* Queue.put(event, block=False) raises Queue.Full
QueueFull(q) == settings.queue_size > 0 /\ Len(q) >= settings.queue_size

\* ChannelWorker.enqueue were it to put the event whatever the queue holds
ChannelWorker_enqueue_always(q, e) == Append(q, e)

\* ChannelWorker.enqueue: the queue it leaves
ChannelWorker_enqueue(q, e) == IF QueueFull(q) THEN q ELSE Append(q, e)

\* self.enqueue(e)
Enqueue(e) ==
    /\ queue' = ChannelWorker_enqueue(queue, e)
    /\ gPut' = [event |-> e, ok |-> ~QueueFull(queue)]

\* ChannelWorker.on_delete_file were it to keep the path cached
ChannelWorker_on_delete_file_kept(path) == matches

\* ChannelWorker.on_delete_file: the cache self.matches.pop(path) leaves
ChannelWorker_on_delete_file(path) == matches \ {path}

\* Channel(queue_size) and the throttle of the worker
WorkerSettings ==
    [duration : {1}, backoff : {1}, cap : {MaxDuration}, queue_size : 0..MaxQueue]

\* the channels a worker is followed for
WorkerConfigs ==
    {c \in ChannelConfigs :
        c.mode = "worker" /\ c.backfill /\ ~c.src_strict /\ c.strict_slack = 0}

\* ChannelWorker.__init__
WorkerStart ==
    /\ queue = <<>>
    /\ matches = {}
    /\ event = NoEvent
    /\ wpc = "poll"
    /\ nposted = 0
    /\ watcher = {}
    /\ gPut = [event |-> NoEvent, ok |-> TRUE]

WorkerInit ==
    /\ now = 1
    /\ settings \in WorkerSettings
    /\ throttle = NewThrottle
    /\ gThrottle = NotInvoked
    /\ WorkerStart

\* WatchEvent.match: a path the watcher has not cached is matched through
\* worker.match(path), which caches it in the worker's matches
WatchEvent_match(path) ==
    IF path \in watcher THEN matches ELSE matches \cup {path}

\* the watcher thread: WatchEvent.on_create_file, on_modify_file and
\* on_delete_file, which drops the path from the watcher's cache at its end
Post(e) ==
    /\ pc = "idle"
    /\ nposted < MaxPosted
    /\ nposted' = nposted + 1
    /\ matches' = WatchEvent_match(e.path)
    /\ watcher' = IF e.flags = "delete" THEN watcher \ {e.path}
                  ELSE watcher \cup {e.path}
    /\ Enqueue(e)
    /\ UNCHANGED <<event, wpc, throttleVars>>

\* step(): event = self.queue.get(...), then `if self.throttle:`
Worker_get(r) ==
    /\ event' = Head(queue)
    /\ queue' = Tail(queue)
    /\ throttle' = r.t
    /\ wpc' = IF r.active THEN "requeue" ELSE "dispatch"

\* step() takes an event and finds the throttle active or the consumer with
\* no flush due
WorkerGet ==
    /\ wpc = "poll"
    /\ queue # <<>>
    /\ ~FlushExpired
    /\ Worker_get(Throttle_nonzero(throttle, now))
    /\ UNCHANGED <<matches, nposted, watcher, gPut, now, settings, gThrottle>>

\* step() with the throttle active: the event goes back to the queue
WorkerRequeue ==
    /\ wpc = "requeue"
    /\ Enqueue(event)
    /\ event' = NoEvent
    /\ wpc' = "poll"
    /\ UNCHANGED <<matches, nposted, watcher, throttleVars>>

\* step() takes an event, the throttle is not active, and the flush that is
\* due in the try block raises
WorkerGetFlushRaise ==
    /\ wpc = "poll"
    /\ queue # <<>>
    /\ ~Throttle_nonzero(throttle, now).active
    /\ event' = Head(queue)
    /\ queue' = Tail(queue)
    /\ throttle' = Throttle_nonzero(throttle, now).t
    /\ wpc' = "except"
    /\ UNCHANGED <<matches, nposted, watcher, gPut, now, settings, gThrottle>>

\* step() dispatches a delete event: on_delete_file, which raises KeyError
\* for a path the cache does not hold
WorkerDelete ==
    /\ wpc = "dispatch"
    /\ pc = "idle"
    /\ event.flags = "delete"
    /\ IF event.path \in matches
       THEN /\ matches' = ChannelWorker_on_delete_file(event.path)
            /\ event' = NoEvent
            /\ wpc' = "poll"
       ELSE /\ wpc' = "except"
            /\ UNCHANGED <<matches, event>>
    /\ UNCHANGED <<queue, nposted, watcher, gPut, throttleVars>>

\* step() dispatches a create or modify event: on_modify_file caches the
\* source of the path and calls the consumer with the path
WorkerModify ==
    /\ wpc = "dispatch"
    /\ pc = "idle"
    /\ event.flags \in {"create", "modify"}
    /\ ncalls < MaxCalls
    /\ matches' = matches \cup {event.path}
    /\ Enter(event.path, "path",
             ChannelSource_open(event.path, consumer.pending_tracker[event.path]),
             consumer)
    /\ UNCHANGED <<queue, event, wpc, nposted, watcher, gPut, throttleVars>>

\* step() dispatches a create or modify event and the file is not there when
\* the source opens it: open() raises IOError(ENOENT), the except clause of
\* on_modify_file calls self.on_delete_file() without the event, which is a
\* TypeError that leaves on_modify_file for the except clause of step().  The
\* path stays cached; the file may be back when the event is taken again.
WorkerModifyMissing ==
    /\ wpc = "dispatch"
    /\ pc = "idle"
    /\ event.flags \in {"create", "modify"}
    /\ ncalls < MaxCalls
    /\ matches' = matches \cup {event.path}
    /\ ncalls' = ncalls + 1
    /\ outcome' = "enoent"
    /\ wpc' = "except"
    /\ UNCHANGED <<files, channel, tracker, consumer, pc, call, sinkHistory,
                   gCall, gCleanLen, gAfterReset, gSlack>>
    /\ UNCHANGED <<queue, event, nposted, watcher, gPut, throttleVars>>
    /\ UNCHANGED blockVars

\* on_modify_file were it to leave the throttle as it is
Worker_returned_kept(count) ==
    /\ wpc' = "poll"
    /\ event' = NoEvent
    /\ UNCHANGED <<queue, matches, nposted, watcher, gPut, throttleVars>>

\* on_modify_file after the consumer returned count: the throttle is reset
\* when blocks were consumed
Worker_returned(count) ==
    /\ wpc' = "poll"
    /\ event' = NoEvent
    /\ throttle' = IF count > 0 THEN Throttle_reset(throttle) ELSE throttle
    /\ gThrottle' = IF count > 0 THEN Cleared ELSE gThrottle
    /\ UNCHANGED <<queue, matches, nposted, watcher, gPut, now, settings>>

\* a step of the consumer the worker called: when it leaves the consume, by
\* a return or by an exception, the worker goes on
WorkerConsume ==
    /\ wpc = "dispatch"
    /\ pc = "step"
    /\ IF pc' = "step" THEN UNCHANGED <<workerVars, throttleVars>>
       ELSE IF outcome' = "raised"
       THEN wpc' = "except" /\ UNCHANGED <<queue, matches, event, nposted,
                                          watcher, gPut,
                                          throttleVars>>
       ELSE Worker_returned(call.count)

\* the except clause of step(): the throttle is engaged and the event goes
\* back to the queue
WorkerExcept ==
    /\ wpc = "except"
    /\ throttle.count < MaxCount
    /\ throttle' = Throttle_call(settings, throttle, now)
    /\ Invoked(Throttle_duration(settings, throttle))
    /\ Enqueue(event)
    /\ event' = NoEvent
    /\ wpc' = "poll"
    /\ UNCHANGED <<matches, nposted, watcher, now, settings>>

\* the flush at the top of step() raises: run() engages the throttle
WorkerPollFlushRaise ==
    /\ wpc = "poll"
    /\ throttle.count < MaxCount
    /\ throttle' = Throttle_call(settings, throttle, now)
    /\ Invoked(Throttle_duration(settings, throttle))
    /\ UNCHANGED <<workerVars, now, settings>>

\* time goes by while the throttle is engaged
WorkerTick ==
    /\ throttle.expires_at # None
    /\ now <= throttle.expires_at
    /\ Tick

(***************************************************************************)
(* The offset trackers.  The SQLite trackers hold the rows of the tracks   *)
(* table twice: as the connection sees them, changes of the open           *)
(* transaction included, and as the database file holds them.  Of the      *)
(* first tracker (slurp.py) the dictionary in memory is followed, in cxn.  *)
(***************************************************************************)
MaxKey == 2
MaxRows == 2
MaxTrack == 1

VARIABLES variant, cxn, tracks, gTrack

trackVars == <<variant, cxn, tracks, gTrack>>

\* characters of a path: a letter in both cases and the two characters that
\* are wildcards in the pattern of a LIKE
KeyChars == {"a", "A", "_", "%"}

TrackKeys == SeqsUpTo(KeyChars, MaxKey) \ {<<>>}

Prefixes == SeqsUpTo(KeyChars, MaxKey)

TrackOffsets == 0..MaxTrack

NoRows == [k \in TrackKeys |-> None]

Rows(t) == {k \in TrackKeys : t[k] # None}

\* str.startswith
startswith(s, prefix) ==
    Len(prefix) <= Len(s) /\ SubSeq(s, 1, Len(prefix)) = prefix

\* LIKE of SQLite folds the case of ASCII letters
Fold(c) == IF c = "A" THEN "a" ELSE c

\* txt LIKE pat in SQLite, no ESCAPE given: % matches any run of characters,
\* _ matches any one character, any other character matches itself in
\* either case
RECURSIVE Like(_, _)
Like(pat, txt) ==
    IF pat = <<>> THEN txt = <<>>
    ELSE IF Head(pat) = "%"
        THEN \/ Like(Tail(pat), txt)
             \/ txt # <<>> /\ Like(pat, Tail(txt))
    ELSE IF txt = <<>> THEN FALSE
    ELSE IF Head(pat) = "_" THEN Like(Tail(pat), Tail(txt))
    ELSE Fold(Head(pat)) = Fold(Head(txt)) /\ Like(Tail(pat), Tail(txt))

\* the DELETE with the pattern given without the trailing %
DeletePrefix_exact(rows, prefix) ==
    [k \in TrackKeys |-> IF Like(prefix, k) THEN None ELSE rows[k]]

\* DELETE FROM tracks WHERE path LIKE ?, with (prefix + '%',)
DeletePrefix(rows, prefix) ==
    [k \in TrackKeys |->
        IF Like(prefix \o <<"%">>, k) THEN None ELSE rows[k]]

\* the loop of remove_dir, over the list that keys() returns
RemoveDir(rows, dir_path) ==
    [k \in TrackKeys |-> IF startswith(k, dir_path) THEN None ELSE rows[k]]

\* the operation that returned last, the prefix it was given if it deletes
\* by prefix, and the number of rows it took away
TrackOp(op, arg, rows) ==
    gTrack' = [op |-> op, arg |-> arg,
               removed |-> Cardinality(Rows(cxn) \ Rows(rows))]

TrackerStart ==
    /\ cxn = NoRows
    /\ tracks = NoRows
    /\ gTrack = [op |-> "open", arg |-> <<>>, removed |-> 0]

TrackerInit == variant \in {"channel", "track", "slurp"} /\ TrackerStart

TrackerIdle == variant = "channel" /\ TrackerStart

\* channel.py Tracker.__setitem__, track.py Tracker.set: UPDATE, INSERT if no
\* row was updated, then commit
Tracker_set(k, offset) ==
    /\ variant \in {"channel", "track"}
    /\ cxn[k] # None \/ Cardinality(Rows(cxn)) < MaxRows
    /\ cxn' = [cxn EXCEPT ![k] = offset]
    /\ tracks' = cxn'
    /\ TrackOp("set", <<>>, cxn')
    /\ UNCHANGED variant

\* channel.py Tracker.__delitem__: DELETE, KeyError if no row was deleted,
\* else commit
Tracker_delitem(k) ==
    /\ variant = "channel"
    /\ IF cxn[k] = None
        THEN UNCHANGED <<cxn, tracks>>
        ELSE /\ cxn' = [cxn EXCEPT ![k] = None]
             /\ tracks' = cxn'
    /\ TrackOp("delete", <<>>, cxn')
    /\ UNCHANGED variant

\* track.py Tracker.delete: DELETE, the cursor is closed
Tracker_delete(k) ==
    /\ variant = "track"
    /\ cxn' = [cxn EXCEPT ![k] = None]
    /\ TrackOp("delete", <<>>, cxn')
    /\ UNCHANGED <<variant, tracks>>

\* track.py Tracker.delete_prefix: DELETE by LIKE, then commit
Tracker_delete_prefix(prefix) ==
    /\ variant = "track"
    /\ cxn' = DeletePrefix(cxn, prefix)
    /\ tracks' = cxn'
    /\ TrackOp("delete_prefix", prefix, cxn')
    /\ UNCHANGED variant

\* slurp.py Tracker.update: the dictionary alone
Tracker_update(k, offset) ==
    /\ variant = "slurp"
    /\ cxn[k] # None \/ Cardinality(Rows(cxn)) < MaxRows
    /\ cxn' = [cxn EXCEPT ![k] = offset]
    /\ TrackOp("set", <<>>, cxn')
    /\ UNCHANGED <<variant, tracks>>

\* slurp.py Tracker.remove_dir: the dictionary alone
Tracker_remove_dir(dir_path) ==
    /\ variant = "slurp"
    /\ cxn' = RemoveDir(cxn, dir_path)
    /\ TrackOp("delete_prefix", dir_path, cxn')
    /\ UNCHANGED <<variant, tracks>>

\* the process ends and a tracker is made on the same database again: the
\* open transaction is rolled back
Tracker_reopen ==
    /\ variant \in {"channel", "track"}
    /\ cxn' = tracks
    /\ gTrack' = [op |-> "open", arg |-> <<>>, removed |-> 0]
    /\ UNCHANGED <<variant, tracks>>

TrackerSet == \E k \in TrackKeys, o \in TrackOffsets : Tracker_set(k, o)

TrackerDelitem == \E k \in TrackKeys : Tracker_delitem(k)

TrackerDelete == \E k \in TrackKeys : Tracker_delete(k)

TrackerDeletePrefix == \E p \in Prefixes : Tracker_delete_prefix(p)

TrackerUpdate == \E k \in TrackKeys, o \in TrackOffsets : Tracker_update(k, o)

TrackerRemoveDir == \E p \in Prefixes : Tracker_remove_dir(p)

(***************************************************************************)
(* The specifications.                                                     *)
(***************************************************************************)
\* the state after construction of a channel whose configuration is given
ChannelStart ==
    /\ files = [p \in Paths |-> <<>>]
    /\ tracker = [p \in Paths |-> None]
    /\ consumer = NewConsumer
    /\ pc = "idle"
    /\ call = CallIdle
    /\ outcome = "none"
    /\ ncalls = 0
    /\ gBuffered = [p \in Paths |-> {}]
    /\ gFailed = [p \in Paths |-> {}]
    /\ gLastAck = [p \in Paths |-> None]
    /\ gPassed = [p \in Paths |-> 0]
    /\ gInOrder = TRUE
    /\ gCall = NoCall
    /\ gCleanLen = [p \in Paths |-> None]
    /\ gAfterReset = [p \in Paths |-> FALSE]
    /\ gSlack = [since |-> 0, thrown |-> "none"]

ChannelInit == channel \in ChannelConfigs /\ ChannelStart

(***************************************************************************)
(* ChannelLock: the advisory lock of a channel, an fcntl lock on the        *)
(* channel's lock file.  Another process may hold the lock.                 *)
(***************************************************************************)
\* seconds on the clock of the lock
MaxLockTime == 2
\* calls of lockf one acquire() is followed through
MaxAttempts == 3

\* the sentinel of an argument that was not passed
NONE == -2

VARIABLES
    lock,       \* the ChannelLock and the locals of its acquire(): [timeout,
                \* poll] of the object, [t, p, nb, timeout_at, attempts] of
                \* the call (nb: LOCK_NB is among the flags)
    lpc,        \* "new": constructed, "try": at the lockf of the loop,
                \* "blocked": inside a lockf without LOCK_NB, "sleep": at
                \* time.sleep(poll), "returned", or the exception that left
                \* acquire(): "CannotLock", "TypeError", "UnboundLocalError"
    holder,     \* who holds the lock of the file: "none", "self", "other"
    lnow        \* time.time()

lockVars == <<lock, lpc, holder, lnow>>

\* the truth value python gives a timeout
Truthy(x) == x \notin {None, 0}

\* timeouts and polls a caller passes
Timeouts == {None, 1, 2}
Polls == {1}

ChannelLock_init(timeout, poll) ==
    [timeout |-> timeout, poll |-> poll, t |-> None, p |-> None, nb |-> FALSE,
     timeout_at |-> None, attempts |-> 0]

\* Channel.lock(timeout, poll) hands (poll, timeout) to ChannelLock
Channel_lock(timeout, poll) == ChannelLock_init(poll, timeout)

LockInit ==
    /\ lock \in {ChannelLock_init(t, p) : t \in Timeouts, p \in Polls}
               \cup {Channel_lock(t, p) : t \in Timeouts, p \in Polls}
    /\ lpc = "new"
    /\ holder \in {"none", "other"}
    /\ lnow = 0

LockIdle ==
    /\ lock = ChannelLock_init(None, 1)
    /\ lpc = "new"
    /\ holder = "none"
    /\ lnow = 0

\* acquire(timeout, poll) up to its loop: poll is chosen by a test of the
\* timeout that was just replaced; timeout_at is bound only with a timeout
ChannelLock_acquire(timeout, poll) ==
    /\ lpc = "new"
    /\ LET t == IF timeout = NONE THEN lock.timeout ELSE timeout
           p == IF t = NONE THEN lock.poll ELSE poll
       IN lock' = [lock EXCEPT !.t = t, !.p = p, !.nb = ~Truthy(t),
                               !.timeout_at = IF Truthy(t) THEN lnow + t
                                              ELSE None,
                               !.attempts = 0]
    /\ lpc' = "try"
    /\ UNCHANGED <<holder, lnow>>

\* what the except clause of the loop does with EACCES or EAGAIN: raise
\* CannotLock, which is built with three of its four arguments, or fall
\* through to the sleep
Refused ==
    IF ~Truthy(lock.timeout) THEN "TypeError"
    ELSE IF lock.timeout_at = None THEN "UnboundLocalError"
    ELSE IF lock.timeout_at < lnow THEN "TypeError"
    ELSE "sleep"

\* lockf(fd, flags) in the loop: it takes the lock (again, when this process
\* holds it), is refused at once with LOCK_NB, or waits
ChannelLock_lockf ==
    /\ lpc = "try"
    /\ lock.attempts < MaxAttempts
    /\ lock' = [lock EXCEPT !.attempts = @ + 1]
    /\ IF holder # "other"
       THEN holder' = "self" /\ lpc' = "sleep"
       ELSE /\ holder' = holder
            /\ lpc' = IF lock.nb THEN Refused ELSE "blocked"
    /\ UNCHANGED lnow

\* the lock is free and the waiting lockf returns
ChannelLock_granted ==
    /\ lpc = "blocked"
    /\ holder = "none"
    /\ holder' = "self"
    /\ lpc' = "sleep"
    /\ UNCHANGED <<lock, lnow>>

\* the end of the loop body, after a lockf that returned as after one that
\* was refused: time.sleep(poll), and the loop goes on
ChannelLock_sleep ==
    /\ lpc = "sleep"
    /\ IF lock.p \in {NONE, None}
       THEN lpc' = "TypeError" /\ lnow' = lnow
       ELSE /\ lnow + lock.p <= MaxLockTime
            /\ lnow' = lnow + lock.p
            /\ lpc' = "try"
    /\ UNCHANGED <<lock, holder>>

\* another process takes or releases the lock
OtherLocks ==
    /\ holder = "none"
    /\ holder' = "other"
    /\ UNCHANGED <<lock, lpc, lnow>>

OtherUnlocks ==
    /\ holder = "other"
    /\ holder' = "none"
    /\ UNCHANGED <<lock, lpc, lnow>>

LockTick ==
    /\ lnow < MaxLockTime
    /\ lnow' = lnow + 1
    /\ UNCHANGED <<lock, lpc, holder>>

(***************************************************************************)
(* The event loop of a channel's thread: ChannelThread.run, which tests a   *)
(* stop event at the top of its loop, and ChannelWorker.run, which took its *)
(* place.                                                                   *)
(***************************************************************************)
\* events waiting in the queue of the thread
MaxThreadEvents == 2

VARIABLES
    thread,     \* [kind, forever, stop_event, throttled, backlog]: the class
                \* of the thread, the forever flag (read by a
                \* ChannelThread only), whether stop was asked
                \* for (ChannelThread.stop() sets stop_event; a ChannelWorker
                \* has no such method and no field to keep it), whether the
                \* throttle event is set and whether the backlog holds events
    tpc,        \* "head": at the test of the loop, "get": waiting on the
                \* queue, "consume": in the channel's consume, "done": run()
                \* returned
    tevents     \* the number of events in the queue

stopVars == <<thread, tpc, tevents>>

ThreadKinds == {"ChannelThread", "ChannelWorker"}

ThreadInit ==
    /\ thread \in [kind : ThreadKinds, forever : BOOLEAN, stop_event : {FALSE},
                   throttled : {FALSE}, backlog : {FALSE}]
    /\ tpc = "head"
    /\ tevents = 0

StopIdle ==
    /\ thread = [kind |-> "ChannelWorker", forever |-> TRUE,
                 stop_event |-> FALSE, throttled |-> FALSE, backlog |-> FALSE]
    /\ tpc = "head"
    /\ tevents = 0

\* the test of ChannelThread's loop
ChannelThread_stopped == thread.stop_event

\* the test at the top of the loop: `while not self.stopped()` in a
\* ChannelThread, `while True` in a ChannelWorker
Thread_loop ==
    /\ tpc = "head"
    /\ tpc' = IF thread.kind = "ChannelThread" /\ ChannelThread_stopped
              THEN "done" ELSE "get"
    /\ UNCHANGED <<thread, tevents>>

\* the wait on the queue ends with no event: a ChannelThread drains its
\* backlog, or leaves the loop when it is not to run forever; a ChannelWorker
\* ends its step
Thread_empty ==
    /\ tpc = "get"
    /\ tevents = 0
    /\ IF thread.kind = "ChannelThread"
       THEN IF ~thread.throttled /\ thread.backlog
            THEN /\ tevents' = 1
                 /\ thread' = [thread EXCEPT !.backlog = FALSE]
                 /\ tpc' = "head"
            ELSE /\ tpc' = IF thread.forever THEN "head" ELSE "done"
                 /\ UNCHANGED <<thread, tevents>>
       ELSE tpc' = "head" /\ UNCHANGED <<thread, tevents>>

\* the wait on the queue ends with an event: a throttled ChannelThread puts
\* it in the backlog, otherwise the event is consumed
Thread_get ==
    /\ tpc = "get"
    /\ tevents > 0
    /\ tevents' = tevents - 1
    /\ IF thread.kind = "ChannelThread" /\ thread.throttled
       THEN thread' = [thread EXCEPT !.backlog = TRUE] /\ tpc' = "head"
       ELSE thread' = thread /\ tpc' = "consume"

\* the consume of the event returns (or, in a ChannelWorker, raises into the
\* except clause of run()); a ChannelThread told THROTTLED sets the throttle
\* event and keeps the event in its backlog
Thread_consumed(throttled) ==
    /\ tpc = "consume"
    /\ thread' = IF thread.kind = "ChannelThread" /\ throttled
                 THEN [thread EXCEPT !.throttled = TRUE, !.backlog = TRUE]
                 ELSE thread
    /\ tpc' = "head"
    /\ UNCHANGED tevents

\* the timer of ChannelThread.throttle clears the throttle event
Thread_unthrottle ==
    /\ thread.throttled
    /\ thread' = [thread EXCEPT !.throttled = FALSE]
    /\ UNCHANGED <<tpc, tevents>>

\* the watcher puts an event in the queue
Thread_post ==
    /\ tevents < MaxThreadEvents
    /\ tevents' = tevents + 1
    /\ UNCHANGED <<thread, tpc>>

\* the owner of the thread asks it to stop
Thread_stop ==
    /\ ~thread.stop_event
    /\ thread' = [thread EXCEPT !.stop_event = TRUE]
    /\ UNCHANGED <<tpc, tevents>>

(***************************************************************************)
(* The wait of ChannelWorker.step on the inbox and the timed flush, with    *)
(* flush_at a time on a clock of whole seconds.  Time passes while the      *)
(* worker waits.                                                            *)
(***************************************************************************)
\* seconds on the clock of the wait
MaxPollTime == 5
\* queue_poll and flush_frequency of the channel, at most
MaxQueuePoll == 3
MaxFlushFrequency == 2
\* blocks pending in the consumer of the worker
MaxPollPending == 2

VARIABLES
    poll,       \* [queue_poll, flush_frequency] of the channel
    pnow,       \* time.time()
    pflush_at,  \* ChannelConsumer.flush_at: None or a time
    ppending,   \* ChannelConsumer.pending
    ppc,        \* "top": at the start of step(), "wait": in queue.get
    gWait       \* [from, timeout]: when the running (or last) queue.get was
                \* called and the timeout it was given

pollVars == <<poll, pnow, pflush_at, ppending, ppc, gWait>>

PollInit ==
    /\ poll \in [queue_poll : 1..MaxQueuePoll,
                 flush_frequency : 1..MaxFlushFrequency]
    /\ pnow = 0
    /\ pflush_at = None
    /\ ppending = 0
    /\ ppc = "top"
    /\ gWait = [from |-> 0, timeout |-> 0]

PollIdle ==
    /\ poll = [queue_poll |-> 1, flush_frequency |-> 1]
    /\ pnow = 0
    /\ pflush_at = None
    /\ ppending = 0
    /\ ppc = "top"
    /\ gWait = [from |-> 0, timeout |-> 0]

\* ChannelConsumer.flush_poll: None without a flush_at, else the seconds
\* since flush_at, 0 while flush_at is ahead
ChannelConsumer_flush_poll(flush_at, t) ==
    IF flush_at = None THEN None
    ELSE IF t - flush_at > 0 THEN t - flush_at ELSE 0

\* ChannelConsumer.flush_expired
ChannelConsumer_flush_expired(pending, flush_at, t) ==
    IF pending = 0 THEN FALSE
    ELSE IF flush_at = None THEN TRUE
    ELSE t > flush_at

\* the timeout step() gives queue.get
ChannelWorker_timeout(flush_at, t) ==
    IF Truthy(ChannelConsumer_flush_poll(flush_at, t))
    THEN Min(ChannelConsumer_flush_poll(flush_at, t), poll.queue_poll)
    ELSE poll.queue_poll

\* step() up to queue.get: flush when flush_expired, then wait on the inbox
ChannelWorker_wait ==
    /\ ppc = "top"
    /\ LET expired == ChannelConsumer_flush_expired(ppending, pflush_at, pnow)
           flush_at == IF expired THEN None ELSE pflush_at
       IN /\ ppending' = IF expired THEN 0 ELSE ppending
          /\ pflush_at' = flush_at
          /\ gWait' = [from |-> pnow,
                       timeout |-> ChannelWorker_timeout(flush_at, pnow)]
    /\ ppc' = "wait"
    /\ UNCHANGED <<poll, pnow>>

\* a second goes by while the worker waits
PollTick ==
    /\ ppc = "wait"
    /\ pnow < gWait.from + gWait.timeout
    /\ pnow < MaxPollTime
    /\ pnow' = pnow + 1
    /\ UNCHANGED <<poll, pflush_at, ppending, ppc, gWait>>

\* queue.get raises Queue.Empty when the timeout is over
ChannelWorker_empty ==
    /\ ppc = "wait"
    /\ pnow = gWait.from + gWait.timeout
    /\ ppc' = "top"
    /\ UNCHANGED <<poll, pnow, pflush_at, ppending, gWait>>

\* queue.get returns an event: flush when flush_expired, then the event is
\* dispatched and its consume leaves one more block pending
ChannelWorker_event ==
    /\ ppc = "wait"
    /\ LET expired == ChannelConsumer_flush_expired(ppending, pflush_at, pnow)
           pending == IF expired THEN 0 ELSE ppending
           flush_at == IF expired THEN None ELSE pflush_at
       IN /\ pending < MaxPollPending
          /\ ppending' = pending + 1
          /\ pflush_at' = IF flush_at = None
                          THEN pnow + poll.flush_frequency ELSE flush_at
    /\ ppc' = "top"
    /\ UNCHANGED <<poll, pnow, gWait>>

hostVars == <<lockVars, stopVars, pollVars>>

HostIdle == LockIdle /\ StopIdle /\ PollIdle

vars == <<blockVars, formVars, chanVars, throttleVars, workerVars, trackVars, hostVars>>

\* the variables of the components that stay as constructed while the
\* channel runs
besideChannel == <<formVars, throttleVars, workerVars, trackVars, hostVars>>

Init ==
    /\ ChannelInit /\ BlocksIdle /\ FormsIdle /\ ThrottleIdle /\ WorkerStart
    /\ TrackerIdle /\ HostIdle

\* Channel.consume makes a consumer of its own for every call and a tracker
\* row belongs to one path, so calls of Channel.consume for different paths
\* have no state in common: one path is followed there.  The consumer of a
\* worker lives across the events of all paths.
Followed == IF channel.mode = "api" THEN {"p"} ELSE Paths

Next ==
    \/ \E p \in Followed : Write(p) /\ UNCHANGED besideChannel
    \/ \E p \in Followed : ChannelSource_reset(p) /\ UNCHANGED besideChannel
    \/ \E p \in Followed : ConsumePath(p) /\ UNCHANGED besideChannel
    \/ \E p \in Followed : ConsumeFo(p) /\ UNCHANGED besideChannel
    \/ StepAck /\ UNCHANGED besideChannel
    \/ StepPending /\ UNCHANGED besideChannel
    \/ StepPendingFlush /\ UNCHANGED besideChannel
    \/ StepPendingFlushRaise /\ UNCHANGED besideChannel
    \/ StepSinkRaise /\ UNCHANGED besideChannel
    \/ StepFormsRaise /\ UNCHANGED besideChannel
    \/ StepStop /\ UNCHANGED besideChannel
    \/ ExitFlush /\ UNCHANGED besideChannel
    \/ ExitFlushRaise /\ UNCHANGED besideChannel
    \/ TimedFlush /\ UNCHANGED besideChannel
    \/ TimedFlushRaise /\ UNCHANGED besideChannel

Spec == Init /\ [][Next]_vars

\* the stand-alone block iterator; the channel stays as constructed
InitBlocks ==
    /\ channel = [backfill |-> FALSE, strict |-> FALSE, strict_slack |-> 0,
                  batch_size |-> 1, src_strict |-> FALSE,
                  flush_frequency |-> FALSE, mode |-> "api"]
    /\ ChannelStart
    /\ BlocksInit
    /\ FormsIdle
    /\ ThrottleIdle
    /\ WorkerStart
    /\ TrackerIdle /\ HostIdle

NextBlocks ==
    \/ BlocksNext /\ UNCHANGED <<chanVars, formVars, throttleVars, workerVars, trackVars, hostVars>>
    \/ BlocksEnd /\ UNCHANGED <<chanVars, formVars, throttleVars, workerVars, trackVars, hostVars>>

SpecBlocks == InitBlocks /\ [][NextBlocks]_vars

\* the stand-alone source; the channel stays as constructed
InitForms ==
    /\ channel = [backfill |-> FALSE, strict |-> FALSE, strict_slack |-> 0,
                  batch_size |-> 1, src_strict |-> FALSE,
                  flush_frequency |-> FALSE, mode |-> "api"]
    /\ ChannelStart
    /\ FormsInit
    /\ ThrottleIdle
    /\ WorkerStart
    /\ TrackerIdle /\ HostIdle

NextForms ==
    \/ FormsNext /\ UNCHANGED <<chanVars, throttleVars, workerVars, trackVars, hostVars>>
    \/ FormsEnd /\ UNCHANGED <<chanVars, throttleVars, workerVars, trackVars, hostVars>>

SpecForms == InitForms /\ [][NextForms]_vars

\* a stand-alone throttle; the channel stays as constructed
InitThrottle ==
    /\ channel = [backfill |-> FALSE, strict |-> FALSE, strict_slack |-> 0,
                  batch_size |-> 1, src_strict |-> FALSE,
                  flush_frequency |-> FALSE, mode |-> "worker"]
    /\ ChannelStart
    /\ BlocksIdle
    /\ FormsIdle
    /\ ThrottleInit
    /\ WorkerStart
    /\ TrackerIdle /\ HostIdle

besideThrottle == <<blockVars, formVars, chanVars, workerVars, trackVars, hostVars>>

NextThrottle ==
    \/ ThrottleInvoke /\ UNCHANGED besideThrottle
    \/ ThrottleReset /\ UNCHANGED besideThrottle
    \/ ThrottleCheck /\ UNCHANGED besideThrottle
    \/ Tick /\ UNCHANGED besideThrottle

SpecThrottle == InitThrottle /\ [][NextThrottle]_vars

\* a channel with its worker and the watcher that posts the events of one
\* path
InitWorker ==
    /\ channel \in WorkerConfigs
    /\ ChannelStart
    /\ BlocksIdle
    /\ FormsIdle
    /\ WorkerInit
    /\ TrackerIdle /\ HostIdle

\* what a step of the worker thread leaves alone
besideWorker == <<formVars, trackVars, hostVars>>

NextWorker ==
    \/ \E e \in Events : Post(e) /\ UNCHANGED <<blockVars, chanVars, besideWorker>>
    \/ Write("p") /\ wpc = "poll" /\ UNCHANGED <<besideWorker, throttleVars, workerVars>>
    \/ WorkerGet /\ UNCHANGED <<blockVars, chanVars, besideWorker>>
    \/ WorkerRequeue /\ UNCHANGED <<blockVars, chanVars, besideWorker>>
    \/ WorkerGetFlushRaise /\ TimedFlushRaise /\ UNCHANGED besideWorker
    \/ WorkerDelete /\ UNCHANGED <<blockVars, chanVars, besideWorker>>
    \/ WorkerModify /\ UNCHANGED besideWorker
    \/ WorkerModifyMissing /\ UNCHANGED besideWorker
    \/ WorkerExcept /\ UNCHANGED <<blockVars, chanVars, besideWorker>>
    \/ WorkerPollFlushRaise /\ TimedFlushRaise /\ UNCHANGED besideWorker
    \/ wpc = "poll" /\ TimedFlush /\ UNCHANGED <<besideWorker, throttleVars, workerVars>>
    \/ WorkerTick /\ UNCHANGED <<blockVars, chanVars, besideWorker, workerVars>>
    \/ StepAck /\ WorkerConsume /\ UNCHANGED besideWorker
    \/ StepPending /\ WorkerConsume /\ UNCHANGED besideWorker
    \/ StepPendingFlush /\ WorkerConsume /\ UNCHANGED besideWorker
    \/ StepPendingFlushRaise /\ WorkerConsume /\ UNCHANGED besideWorker
    \/ StepSinkRaise /\ WorkerConsume /\ UNCHANGED besideWorker
    \/ StepStop /\ WorkerConsume /\ UNCHANGED besideWorker

SpecWorker == InitWorker /\ [][NextWorker]_vars

\* a tracker alone, of any of the three variants
InitTracker ==
    /\ channel = [backfill |-> FALSE, strict |-> FALSE, strict_slack |-> 0,
                  batch_size |-> 1, src_strict |-> FALSE,
                  flush_frequency |-> FALSE, mode |-> "api"]
    /\ ChannelStart
    /\ BlocksIdle
    /\ FormsIdle
    /\ ThrottleIdle
    /\ WorkerStart
    /\ TrackerInit
    /\ HostIdle

besideTracker ==
    <<blockVars, formVars, chanVars, throttleVars, workerVars, hostVars>>

NextTracker ==
    \/ TrackerSet /\ UNCHANGED besideTracker
    \/ TrackerDelitem /\ UNCHANGED besideTracker
    \/ TrackerDelete /\ UNCHANGED besideTracker
    \/ TrackerDeletePrefix /\ UNCHANGED besideTracker
    \/ TrackerUpdate /\ UNCHANGED besideTracker
    \/ TrackerRemoveDir /\ UNCHANGED besideTracker
    \/ Tracker_reopen /\ UNCHANGED besideTracker

SpecTracker == InitTracker /\ [][NextTracker]_vars

\* a channel lock alone and the process that competes for it
InitLock ==
    /\ channel = [backfill |-> FALSE, strict |-> FALSE, strict_slack |-> 0,
                  batch_size |-> 1, src_strict |-> FALSE,
                  flush_frequency |-> FALSE, mode |-> "api"]
    /\ ChannelStart
    /\ BlocksIdle
    /\ FormsIdle
    /\ ThrottleIdle
    /\ WorkerStart
    /\ TrackerIdle
    /\ LockInit
    /\ StopIdle
    /\ PollIdle

besideLock ==
    <<blockVars, formVars, chanVars, throttleVars, workerVars, trackVars,
      stopVars, pollVars>>

NextLock ==
    \/ \E t \in Timeouts \cup {NONE}, p \in Polls \cup {NONE} :
          ChannelLock_acquire(t, p) /\ UNCHANGED besideLock
    \/ ChannelLock_lockf /\ UNCHANGED besideLock
    \/ ChannelLock_granted /\ UNCHANGED besideLock
    \/ ChannelLock_sleep /\ UNCHANGED besideLock
    \/ OtherLocks /\ UNCHANGED besideLock
    \/ OtherUnlocks /\ UNCHANGED besideLock
    \/ LockTick /\ UNCHANGED besideLock

SpecLock == InitLock /\ [][NextLock]_vars

\* the thread of a channel alone, its queue and the owner that stops it
InitStop ==
    /\ channel = [backfill |-> FALSE, strict |-> FALSE, strict_slack |-> 0,
                  batch_size |-> 1, src_strict |-> FALSE,
                  flush_frequency |-> FALSE, mode |-> "worker"]
    /\ ChannelStart
    /\ BlocksIdle
    /\ FormsIdle
    /\ ThrottleIdle
    /\ WorkerStart
    /\ TrackerIdle
    /\ LockIdle
    /\ ThreadInit
    /\ PollIdle

besideStop ==
    <<blockVars, formVars, chanVars, throttleVars, workerVars, trackVars,
      lockVars, pollVars>>

NextStop ==
    \/ Thread_loop /\ UNCHANGED besideStop
    \/ Thread_empty /\ UNCHANGED besideStop
    \/ Thread_get /\ UNCHANGED besideStop
    \/ \E throttled \in BOOLEAN : Thread_consumed(throttled) /\ UNCHANGED besideStop
    \/ Thread_unthrottle /\ UNCHANGED besideStop
    \/ Thread_post /\ UNCHANGED besideStop
    \/ Thread_stop /\ UNCHANGED besideStop

SpecStop == InitStop /\ [][NextStop]_vars

\* the wait of a worker on its inbox, alone
InitPoll ==
    /\ channel = [backfill |-> FALSE, strict |-> FALSE, strict_slack |-> 0,
                  batch_size |-> 1, src_strict |-> FALSE,
                  flush_frequency |-> FALSE, mode |-> "worker"]
    /\ ChannelStart
    /\ BlocksIdle
    /\ FormsIdle
    /\ ThrottleIdle
    /\ WorkerStart
    /\ TrackerIdle
    /\ LockIdle
    /\ StopIdle
    /\ PollInit

besidePoll ==
    <<blockVars, formVars, chanVars, throttleVars, workerVars, trackVars,
      lockVars, stopVars>>

NextPoll ==
    \/ ChannelWorker_wait /\ UNCHANGED besidePoll
    \/ PollTick /\ UNCHANGED besidePoll
    \/ ChannelWorker_empty /\ UNCHANGED besidePoll
    \/ ChannelWorker_event /\ UNCHANGED besidePoll

SpecPoll == InitPoll /\ [][NextPoll]_vars

(***************************************************************************)
(* Properties of the block iterators, checked under SpecBlocks.            *)
(***************************************************************************)
\* C6 as stated.  Block contiguity: every two consecutive blocks b1, b2
\* emitted by one block iterator satisfy b1.end = b2.begin, for any content
\* and any configuration.
C6_Contiguous == bPrev # NoBlock => bPrev.end = bLast.begin

\* C6, amended.  Consecutive blocks of one iterator never overlap and never
\* go backwards (b1.end <= b2.begin), and they are contiguous
\* (b1.end = b2.begin) whenever the iterator is strict or the next() that
\* returned b2 discarded nothing (no overflowing buffer and no block parsed
\* after one).
C6_ContiguousUnlessDiscarded ==
    bPrev # NoBlock =>
        /\ bPrev.end <= bLast.begin
        /\ (bCfg.strict \/ ~bSkipped) => bPrev.end = bLast.begin

\* a second block was emitted by a next() that discarded data, with a gap
C6_Witness ==
    /\ bPrev # NoBlock
    /\ bSkipped
    /\ bPrev.end < bLast.begin

\* C7.  Exact offsets: every emitted block b has b.end - b.begin = len(b.raw)
\* and b.raw = content[b.begin:b.end], also after non-strict discards.
C7_ExactOffsets ==
    bLast # NoBlock =>
        /\ bLast.end - bLast.begin = Len(bLast.raw)
        /\ bLast.raw = Slice(bContent, bLast.begin, bLast.end)

(***************************************************************************)
(* Properties of the channel, checked under Spec.                          *)
(***************************************************************************)
\* C1.  No gap: the tracked offset of a path never reaches the end of a
\* block that was passed to the sink and is not acknowledged: one the sink
\* holds as pending with no successful flush since, or one for which the
\* sink raised.
C1_NoGap ==
    \A p \in Paths :
        tracker[p] # None =>
            \A e \in gBuffered[p] \cup gFailed[p] : tracker[p] < e

\* the step in which a consume leaves without raising
ReturnsCleanly == pc # "idle" /\ pc' = "idle" /\ outcome' = "returned"

\* C2.  When a consume of a path returns without raising, the tracked
\* offset of the path is the end of the last block of the path the sink
\* acknowledged, directly or through a successful flush.
C2_TrackerIsLastAck ==
    [][ReturnsCleanly /\ gLastAck'[call.path] # None
         => tracker'[call.path] = gLastAck'[call.path]]_vars

\* C3.  When Channel.consume has returned without raising, every block the
\* sink reported pending was flushed by a successful sink.flush(), and the
\* consumer has nothing pending.
C3_AllFlushed ==
    (channel.mode = "api" /\ pc = "idle" /\ outcome = "returned") =>
        /\ \A p \in Paths : gBuffered[p] = {}
        /\ consumer.pending = 0
        /\ consumer.pending_tracker = NoPending

\* C4.  Tracker monotonicity: with no reset in between, no consumer
\* operation writes a lower offset for a path than the one it holds.
C4_Monotonic ==
    [][\A p \in Paths :
          (tracker[p] # None /\ tracker'[p] # None) => tracker'[p] >= tracker[p]]_vars

\* C5.  Per-path delivery order: through one consumer, every block passed
\* to the sink begins at or after the end of the block of that path the
\* sink took before, so no block is passed twice.
C5_InOrder == gInOrder

\* the last operation was a Channel.consume(path) that returned cleanly
Returned ==
    /\ channel.mode = "api"
    /\ pc = "idle"
    /\ outcome = "returned"
    /\ gCall.kind = "path"

\* C8.  Idempotence: a consume(p) that follows a consume(p) with no write
\* to p in between passes no form to the sink and leaves tracker[p] as it
\* was.
C8_Idempotent ==
    (Returned /\ gCall.prevLen = gCall.len0 /\ ~gAfterReset[gCall.path]) =>
        /\ gCall.forms = <<>>
        /\ tracker[gCall.path] = gCall.tr0

\* content is made of valid records only: "an" repeated
ValidRecords(content) ==
    /\ Len(content) % 2 = 0
    /\ \A i \in 1..Len(content) : content[i] = IF i % 2 = 1 THEN "a" ELSE "n"

\* the <<begin, end>> of the records of two bytes that lie in [from, to)
RecordsBetween(from, to) ==
    [i \in 1..((to - from) \div 2) |-> <<from + 2 * (i - 1), from + 2 * i>>]

\* C9.  Incremental consumption: N bytes of valid records are written and
\* consumed, M more bytes of valid records are appended and consumed: the
\* second consume passes exactly the records of the M appended bytes.
C9_Incremental ==
    (/\ Returned
     /\ gCall.prevLen # None
     /\ ValidRecords(SliceTo(files[gCall.path], gCall.prevLen))
     /\ ValidRecords(SliceTo(files[gCall.path], gCall.len0))) =>
        gCall.forms = RecordsBetween(gCall.prevLen, gCall.len0)

\* a second consume found appended records and passed them
C9_Witness ==
    /\ Returned
    /\ gCall.prevLen # None
    /\ gCall.prevLen > 0
    /\ gCall.len0 > gCall.prevLen
    /\ ValidRecords(SliceTo(files[gCall.path], gCall.prevLen))
    /\ ValidRecords(SliceTo(files[gCall.path], gCall.len0))
    /\ gCall.forms = RecordsBetween(gCall.prevLen, gCall.len0)

\* the <<begin, end>> of every line of content from offset from on: a line
\* ends with the terminal, what follows the last terminal is no line
RECURSIVE Lines(_, _)
Lines(content, from) ==
    LET ends == {e \in (from + 1)..Len(content) : content[e] = "n"}
    IN  IF ends = {} THEN <<>>
        ELSE LET e == CHOOSE x \in ends : \A y \in ends : x <= y
             IN  <<<<from, e>>>> \o Lines(content, e)

\* what a first consume of an untracked file passes when the channel
\* backfills: every line the pattern matches, from the start of the file
Backfilled(content) ==
    LET Matches(l) == content[l[1] + 1] = "a"
    IN  SelectSeq(Lines(content, 0), Matches)

\* a consume(p) right after reset(p), or the first one of an untracked p,
\* that returned cleanly
FromScratch == Returned /\ (gCall.afterReset \/ gCall.tr0 = None)

\* C10 as stated.  Reset round-trip: reset(p); consume(p) passes the forms
\* a first consume(p) of an untracked path passes under backfill=true, and
\* after reset(p) the tracker has no entry for p.
C10_ResetRoundTrip ==
    /\ \A p \in Paths : gAfterReset[p] => tracker[p] = None
    /\ (Returned /\ gCall.afterReset) =>
           gCall.forms = Backfilled(SliceTo(files[gCall.path], gCall.len0))

\* C10, amended.  After reset(p) the tracker has no entry for p, and on a
\* channel with backfill=true reset(p); consume(p) passes the forms of a
\* first consume(p) of an untracked path: every matching record from the
\* start of the file.
C10_ResetRoundTripBackfill ==
    /\ \A p \in Paths : gAfterReset[p] => tracker[p] = None
    /\ (FromScratch /\ channel.backfill) =>
           gCall.forms = Backfilled(SliceTo(files[gCall.path], gCall.len0))

\* a tracked path was reset and consumed again, and its records passed
C10_Witness ==
    /\ Returned
    /\ gCall.afterReset
    /\ gCall.tr0 = None
    /\ channel.backfill
    /\ gCall.forms # <<>>
    /\ gCall.forms = Backfilled(SliceTo(files[gCall.path], gCall.len0))

\* a consume of a path begins: the consumer's __call__ opens the path
OpensPath == pc = "idle" /\ pc' = "step" /\ gCall'.kind = "path"

\* where the tracker and backfill alone place the file object of path p
TrackedStart(p) ==
    IF tracker[p] # None THEN tracker[p]
    ELSE IF channel.backfill THEN 0
    ELSE Len(files[p])

\* a consume of an untracked path on a channel with backfill=false returns
\* without raising
TailReturns ==
    /\ pc # "idle"
    /\ pc' = "idle"
    /\ outcome' = "returned"
    /\ gCall.kind = "path"
    /\ gCall.tr0 = None
    /\ ~channel.backfill

\* such a consume passed nothing and tracked the size of the file
TailTracked ==
    /\ gCall'.forms = <<>>
    /\ tracker'[gCall.path] = Len(files[gCall.path])

\* C11 as stated.  Start position: a consume given a path reads from the
\* tracker offset if the tracker has an entry for the path, else from byte 0
\* if backfill is true, else from the end of the file; so with
\* backfill=false and no entry it passes nothing to the sink and sets
\* tracker[path] to the size of the file.
C11_StartPosition ==
    [][/\ OpensPath => call'.it.fpos = TrackedStart(call'.path)
       /\ TailReturns => TailTracked]_vars

\* C11, amended.  A consume given a path reads from the offset the consumer
\* holds pending for the path if it holds one, else from the tracker offset
\* if the tracker has an entry, else from byte 0 if backfill is true, else
\* from the end of the file; with backfill=false and no entry it passes
\* nothing to the sink and sets tracker[path] to the size of the file.
C11_StartPositionPending ==
    [][/\ OpensPath =>
            call'.it.fpos =
                IF consumer'.pending_tracker[call'.path] # None
                THEN consumer'.pending_tracker[call'.path]
                ELSE TrackedStart(call'.path)
       /\ TailReturns => TailTracked]_vars

\* a worker's consumer opened a path at the offset it holds pending, past
\* the tracked one
C11_Witness ==
    /\ pc = "step"
    /\ gCall.kind = "path"
    /\ gCall.forms = <<>>
    /\ gCall.tr0 # None
    /\ consumer.pending_tracker[call.path] # None
    /\ consumer.pending_tracker[call.path] > gCall.tr0
    /\ call.it = NewIterator(consumer.pending_tracker[call.path])

CompleteEnd(content) ==
    Max({0} \cup {e \in 1..Len(content) : content[e] = "n"})

\* C14.  After a non-strict consume of a file returns, the tracker offset of
\* the path is past every complete block of the file, also the blocks that
\* were skipped because the pattern does not match them, wherever they lie
\* in the file (also when the last blocks of the file are the skipped ones).
C14_PastSkipped ==
    (/\ Returned
     /\ ~gAfterReset[gCall.path]
     /\ ~channel.strict
     /\ ~channel.src_strict) =>
        /\ tracker[gCall.path] # None
        /\ tracker[gCall.path] >=
               CompleteEnd(SliceTo(files[gCall.path], gCall.len0))

(***************************************************************************)
(* Properties of Source.forms, checked under SpecForms.                    *)
(***************************************************************************)
\* every block `for block in self.blocks(fo)` gives from iterator it on, and
\* how the iteration ends
RECURSIVE BlocksFrom(_, _, _)
BlocksCons(r, rest) == [blocks |-> <<r.blk>> \o rest.blocks, res |-> rest.res]

BlocksRest(r, content, cfg) ==
    IF r.res # "block" THEN [blocks |-> <<>>, res |-> r.res]
    ELSE BlocksCons(r, BlocksFrom(r.it, content, cfg))

BlocksFrom(it, content, cfg) ==
    BlocksRest(BlockIterator_next(it, content, cfg), content, cfg)

Matching(b) == PatternMatch(b.raw)

\* the blocks of all before the first one that does not match
MatchingHead(all) ==
    LET bad == {i \in 1..Len(all.blocks) : ~Matching(all.blocks[i])}
        first == CHOOSE i \in bad : \A j \in bad : i <= j
    IN  IF bad = {} THEN all
        ELSE [blocks |-> SubSeq(all.blocks, 1, first - 1), res |-> "raise"]

\* what the claim expects of forms over blocks all
MatchingForms(all, strict) ==
    IF strict THEN MatchingHead(all)
    ELSE [blocks |-> SelectSeq(all.blocks, Matching), res |-> all.res]

IsPrefix(s, t) == Len(s) <= Len(t) /\ s = SubSeq(t, 1, Len(s))

FormsAgree(expected) ==
    IF bRes = "iter" THEN IsPrefix(fYielded, expected.blocks)
    ELSE fYielded = expected.blocks /\ bRes = expected.res

FormsSkipped(all) ==
    \E i, j \in 1..Len(all.blocks) :
        i < j /\ ~Matching(all.blocks[i]) /\ Matching(all.blocks[j])

MinCap(cap, d) == IF cap # None /\ d > cap THEN cap ELSE d

\* min(cap, d) where a cap of None or 0 bounds nothing
MinCapSet(cap, d) == IF cap # None /\ cap # 0 /\ d > cap THEN cap ELSE d

\* an invocation sets expires_at = now + d for the d it returns, adds one to
\* count and returns no less than the invocation before it
BacksOff ==
    gThrottle'.k = gThrottle.k + 1 =>
        /\ throttle'.expires_at = now + gThrottle'.d
        /\ throttle'.count = throttle.count + 1
        /\ gThrottle.d # None => gThrottle'.d >= gThrottle.d

\* C16 as stated.  Throttle back-off: with no reset in between, the k-th
\* invocation (k = 0, 1, 2, ...) returns d = min(cap, duration +
\* duration*backoff*k), sets expires_at = now + d and adds one to count; so
\* the durations never decrease and never exceed cap, and after reset() the
\* next invocation returns the base duration.
C16_BackOff ==
    [][/\ BacksOff
       /\ \A k \in 0..MaxCount :
             gThrottle.k = k /\ gThrottle'.k = k + 1 =>
                /\ gThrottle'.d =
                      MinCap(settings.cap,
                             settings.duration + settings.duration * settings.backoff * k)
                /\ settings.cap # None => gThrottle'.d <= settings.cap]_vars

\* C16, amended.  With no reset in between, the k-th invocation returns
\* d = min(cap, duration + duration*backoff*k) when a cap is set (cap is
\* neither None nor 0) and d = duration + duration*backoff*k when it is not,
\* sets expires_at = now + d and adds one to count; so the durations never
\* decrease, never exceed a cap that is set, and after reset() the next
\* invocation counts from k = 0 again.
C16_BackOffCapSet ==
    [][/\ BacksOff
       /\ \A k \in 0..MaxCount :
             gThrottle.k = k /\ gThrottle'.k = k + 1 =>
                /\ gThrottle'.d =
                      MinCapSet(settings.cap,
                                settings.duration + settings.duration * settings.backoff * k)
                /\ (settings.cap # None /\ settings.cap # 0) =>
                       gThrottle'.d <= settings.cap]_vars

\* a throttle that backs off was invoked again and again until its cap cut
\* the duration it returned
C16_Witness ==
    /\ gThrottle.k = MaxCount
    /\ settings.backoff > 0
    /\ settings.cap = MaxCap
    /\ gThrottle.d = settings.cap
    /\ throttle.count = MaxCount

(***************************************************************************)
(* Properties of the worker, checked under SpecWorker.                     *)
(***************************************************************************)
\* the sink raised in the running consume, for a block or in the flush of a
\* full batch (the source is lax, so nothing else raises with a block known)
SinkRaised ==
    /\ pc = "step"
    /\ gSlack'.since > gSlack.since \/ gSlack'.thrown = "block"

\* the except clause of step() ran for an event of a file that changed
Excepted == wpc = "except" /\ wpc' # "except" /\ event.flags # "delete"

\* C12.  Sink errors always throttle and are never skipped: whenever the
\* sink raises for a block or in a flush during a consume the worker drives,
\* on a strict and on a lax channel alike, the consume is left for the
\* except clause of the worker, the tracker does not move past the block,
\* the throttle becomes active and the event is put back on the queue.
C12_SinkErrorsThrottle ==
    [][/\ SinkRaised => (wpc' = "except" /\ tracker' = tracker)
       /\ Excepted =>
            /\ Throttle_nonzero(throttle', now').active
            /\ queue' = Append(queue, event)]_vars

\* an enqueue ran: the watcher posted an event or the worker put one back
Enqueued ==
    \/ nposted' = nposted + 1
    \/ wpc \in {"requeue", "except"} /\ wpc' = "poll"

\* the worker takes from the head of the queue
TakesHead == Len(queue') < Len(queue) => (event' = Head(queue) /\ queue' = Tail(queue))

DeleteHandled == wpc = "dispatch" /\ event.flags = "delete" /\ wpc' # "dispatch"

PrefixDeleted == gTrack.op = "delete_prefix"

\* C19: after delete_prefix(P), remove_dir(P) in the first tracker, has
\* returned, no key that remains in the tracker starts with P, whatever the
\* keys and whatever the prefix P
C19_NoKeyWithPrefix ==
    PrefixDeleted => \A k \in Rows(cxn) : ~startswith(k, gTrack.arg)

\* a prefix that is not empty was deleted, a key went and a key stayed
C19_Witness ==
    /\ PrefixDeleted
    /\ gTrack.arg # <<>>
    /\ gTrack.removed > 0
    /\ Rows(cxn) # {}

\* C20: every set, delete and delete_prefix of a SQLite tracker is committed
\* before it returns: a tracker opened again after the process ended, at any
\* point after an operation returned, has the rows the returned operations
\* left
C20_Durable == variant \in {"channel", "track"} => tracks = cxn

(***************************************************************************)
(* The worker and the watcher.                                             *)
(***************************************************************************)
\* the consumer the worker called for a create or modify event could not
\* open the file
MissingFound == wpc = "dispatch" /\ wpc' # "dispatch" /\ outcome' = "enoent"

\* the step() that met the missing file ends
MissingLeft == wpc = "except" /\ wpc' # "except" /\ outcome = "enoent"

\* C22: when the consume for a modify or create event fails because the file
\* is not there, the worker treats the event as a delete of the path: the
\* path leaves the match cache, the throttle is not engaged, the event is
\* not put back and the worker goes on with the next event
C22_MissingIsDelete ==
    [][/\ MissingFound => (event.path \notin matches' /\ wpc' = "poll")
       /\ MissingLeft => (throttle' = throttle /\ queue' = queue)]_vars

\* a step of the watcher thread
WatcherStep == nposted' # nposted

\* C25: the match cache, the consumer, the throttle and the tracker of a
\* worker are read and written by the worker's own thread alone: a step of
\* the watcher thread changes nothing of the worker but its inbox
C25_Confined ==
    [][WatcherStep =>
          /\ matches' = matches
          /\ consumer' = consumer
          /\ throttle' = throttle
          /\ tracker' = tracker]_vars

\* the throttle is active: expires_at is set and not in the past
ThrottleActive == Throttle_nonzero(throttle, now).active

\* the flush at the top of step() ran: sink.flush() returned or raised
FlushedAtTop ==
    /\ wpc = "poll" /\ wpc' = "poll"
    /\ consumer.pending > 0
    /\ consumer'.pending = 0 \/ gThrottle'.k > gThrottle.k

\* step() put back the event it took while the throttle was active
PutBack == wpc = "requeue" /\ wpc' = "poll"

\* C26: while the throttle is active the worker makes no call into the sink,
\* through the consumer or through sink.flush(), and every event it takes
\* from the inbox in that time is put back
C26_ThrottleGate ==
    [][ThrottleActive =>
          /\ ~FlushedAtTop
          /\ pc' # "step"
          /\ PutBack => (gPut'.ok /\ gPut'.event = event)]_vars

\* the consume the worker called returns
WorkerReturns ==
    wpc = "dispatch" /\ pc = "step" /\ pc' = "idle" /\ outcome' = "returned"

FailureLeft == wpc = "except" /\ wpc' # "except" /\ outcome # "enoent"

\* the last enqueue put the event the worker holds into the inbox
EventInInbox == gPut'.ok /\ gPut'.event = event

\* C28: when the dispatch of an event raises, the missing file aside, the
\* throttle is engaged and after the step the event is in the inbox again,
\* however the enqueues of the watcher thread fall, also when the inbox was
\* full before the event was taken; an event taken while the throttle is
\* active is in the inbox again after the step as well
C28_Requeued ==
    [][/\ FailureLeft =>
            /\ gThrottle'.k = gThrottle.k + 1
            /\ throttle'.expires_at # None
            /\ EventInInbox
       /\ PutBack => EventInInbox]_vars


----------------------------------------------------------------------------
\* What Channel.consume returns.

\* a Channel.consume(path) call of the API has returned
ConsumeReturned == channel.mode = "api" /\ pc = "idle" /\ outcome = "returned"

\* C23.  The count returned by Channel.consume is the number of blocks the
\* sink acknowledged, in the call or through a flush, and the bytes returned
\* are the sum of end - begin over the blocks the sink took without an error.
C23_CountAndBytes ==
    ConsumeReturned =>
        /\ consumer.count = gCall.acked
        /\ consumer.bytes = gCall.taken

\* sink.flush() raised: at the batch_size flush inside consume, at the flush
\* on leaving the consumer context, or at the worker's timed flush
FlushRaised == StepPendingFlushRaise \/ ExitFlushRaise \/ TimedFlushRaise

\* the blocks that were pending when flush() was called (at the batch_size
\* flush the block just handed to the sink is one of them)
StillPending == IF pc = "step" THEN consumer.pending + 1 ELSE consumer.pending

\* C29.  Whenever sink.flush() raises, at the batch_size flush inside
\* consume, at the worker's timed flush or at the flush on leaving the
\* consumer context, every block that was still pending is counted in errors
\* and the pending offsets are not committed to the tracker.
C29_FlushFailure ==
    [][FlushRaised =>
         /\ consumer'.errors >= consumer.errors + StillPending
         /\ tracker' = tracker]_vars


----------------------------------------------------------------------------
\* The channel lock.

\* a lockf of acquire() returned: this process holds the lock
LockTaken == lpc \in {"try", "blocked"} /\ lpc' # lpc /\ holder' = "self"

\* a lockf of acquire() was refused, the lock being held by another process,
\* and no timeout was given or the timeout has elapsed
LockRefused ==
    /\ lpc = "try" /\ lpc' # lpc /\ holder = "other" /\ lock.nb
    /\ ~Truthy(lock.t) \/ lock.timeout_at < lnow

\* C21.  acquire() returns with the lock held whenever the lock is free or
\* becomes free before the timeout, and raises CannotLock when the lock is
\* held by another process and either no timeout was given or the timeout
\* has elapsed; it does not go round its loop again once it has the lock.
C21_Acquire ==
    [][/\ LockTaken => lpc' = "returned"
       /\ LockRefused => lpc' = "CannotLock"]_vars


----------------------------------------------------------------------------
\* Stopping the thread of a channel.

\* the thread passes the top of its loop after a stop was asked for
PassesLoopTest == tpc = "head" /\ tpc' # "head" /\ thread.stop_event

\* C24.  Once a stop is requested the channel's thread observes it between
\* loop iterations and terminates: the first test of the loop after the
\* request ends run(), so no thread runs on after a stop.
C24_StopObserved == [][PassesLoopTest => tpc' = "done"]_vars


----------------------------------------------------------------------------
\* The timed flush.

\* the worker waits on its inbox with blocks pending and a flush_at
WaitsPending == ppc = "wait" /\ ppending > 0 /\ pflush_at # None

\* C30.  With flush_frequency set and blocks pending, the worker's wait on
\* its inbox is min(queue_poll, time remaining until flush_at), so the wait
\* never goes past flush_at.
C30_WaitUntilFlush ==
    WaitsPending =>
        /\ gWait.timeout = Min(poll.queue_poll, pflush_at - gWait.from)
        /\ gWait.from + gWait.timeout <= pflush_at


----------------------------------------------------------------------------
\* Pending offsets of several paths.

\* the pending offset of path q is kept, or it is committed to the tracker
PendingKept(q) ==
    \/ consumer'.pending_tracker[q] = consumer.pending_tracker[q]
    \/ tracker'[q] = consumer.pending_tracker[q]

\* C31.  When the sink acknowledges a block of one path, only the pending
\* state of that path is cleared: the pending offsets recorded for the other
\* paths stay in the pending tracker or are committed to the tracker.
C31_AckClearsOwnPath ==
    [][StepAck =>
         \A q \in Paths \ {call.path} :
            consumer.pending_tracker[q] # None => PendingKept(q)]_vars


----------------------------------------------------------------------------
\* The block iterators at their boundaries.

\* the offsets of content where the prefix regex matches
PrefixAt(content) == {i \in 0..(Len(content) - 1) : content[i + 1] = PrefixByte}

\* the prefix matches of content that start a record: the one at offset 0
\* and those the terminal precedes
RecordStarts(content) ==
    {i \in PrefixAt(content) :
        i = 0 \/ Slice(content, i - Len(Terminal), i) = Terminal}

\* content is one whole multi-line record, with prefix-like text in its body
OneRecordWithPrefixInside(content) ==
    /\ RecordStarts(content) = {0}
    /\ PrefixAt(content) # {0}
    /\ Suffix(content, Len(Terminal)) = Terminal

\* the iteration is over and gave content as its one block
OneBlock(content) ==
    /\ bRes = "stop"
    /\ bPrev = NoBlock
    /\ bLast = [begin |-> 0, end |-> Len(content), raw |-> content]

\* C32.  Multi-line mode: a prefix match that the terminal does not precede
\* does not end the block and does not keep it from being emitted: a record
\* whose body holds prefix-like text, shorter than the buffer, is emitted as
\* one block that runs to the end of the file.
C32_PrefixInsideRecord ==
    (/\ bCfg.mode = "multi"
     /\ bRes # "iter"
     /\ OneRecordWithPrefixInside(bContent)
     /\ Len(bContent) < bCfg.max_buffer_size)
        => OneBlock(bContent)

\* content is a run of whole multi-line records from offset 0, with no
\* prefix-like text inside them, and maybe the start of one more record
RecordsOnly(content) ==
    /\ 0 \in PrefixAt(content)
    /\ PrefixAt(content) = RecordStarts(content)

\* where the last record of content starts
LastStart(content) == Max(RecordStarts(content))

\* C33.  Multi-line mode at EOF with no further prefix match: the rest of
\* the buffer is emitted as a block iff it ends with the terminal; otherwise
\* it is a partial block, and a strict iterator raises while a non-strict
\* one emits nothing for it and ends the iteration.
C33_RemainderAtEOF ==
    (/\ bCfg.mode = "multi"
     /\ bRes # "iter"
     /\ RecordsOnly(bContent)
     /\ Len(bContent) < bCfg.max_buffer_size)
        => IF Suffix(bContent, Len(Terminal)) = Terminal
           THEN bRes = "stop" /\ bLast.end = Len(bContent)
           ELSE IF bCfg.strict
           THEN bRes = "raise"
           ELSE /\ bRes = "stop"
                /\ bLast.end = IF LastStart(bContent) = 0 THEN None
                               ELSE LastStart(bContent)

RECURSIVE LineRecords(_)
\* the records of a line-mode file: each runs to its terminal (bytes after
\* the last terminal are no record yet)
LineRecords(content) ==
    IF Find(content, Terminal, 0) = -1 THEN <<>>
    ELSE <<SliceTo(content, Find(content, Terminal, 0) + Len(Terminal))>>
         \o LineRecords(SliceFrom(content, Find(content, Terminal, 0) + Len(Terminal)))

RECURSIVE MultiRecords(_, _)
\* the records of a multi-line file from offset from on: each runs from a
\* record start to the next
MultiRecords(content, from) ==
    IF from >= Len(content) THEN <<>>
    ELSE LET later == {i \in RecordStarts(content) : i > from}
             to == IF later = {} THEN Len(content)
                   ELSE CHOOSE i \in later : \A j \in later : i <= j
         IN  <<Slice(content, from, to)>> \o MultiRecords(content, to)

\* content is made of whole records of the mode and of nothing else
WholeRecords(content, mode) ==
    \/ content = <<>>
    \/ /\ Suffix(content, Len(Terminal)) = Terminal
       /\ mode = "multi" => RecordsOnly(content)

Records(content, mode) ==
    IF mode = "line" THEN LineRecords(content) ELSE MultiRecords(content, 0)

\* the bytes of the blocks returned so far
Raws(out) == [i \in 1..Len(out) |-> out[i].raw]

\* the records of recs that do not fit the buffer
TooLong(recs, max_buffer_size) ==
    {i \in 1..Len(recs) : Len(recs[i]) >= max_buffer_size}

\* what C34 asks of an iteration that is over, for the records recs of the
\* file of which long are too long
BufferLimit(recs, long) ==
    IF long = {}
    THEN bRes = "stop" /\ Raws(bOut) = recs
    ELSE IF bCfg.strict
    THEN /\ bRes = "raise"
         /\ Raws(bOut) = SubSeq(recs, 1, (CHOOSE i \in long : \A j \in long : i <= j) - 1)
    ELSE /\ bRes = "stop"
         /\ \A i \in 1..Len(bOut) : Len(bOut[i].raw) < bCfg.max_buffer_size
         /\ Len(bOut) >= Len(recs) - 2 * Cardinality(long)

\* C34.  Buffer limit boundary: records of at most max_buffer_size - 1 bytes
\* are emitted normally; a record of max_buffer_size bytes or longer raises
\* in strict mode, and in non-strict mode it is discarded together with one
\* block parsed after it, after which the following records are emitted.
C34_BufferLimit ==
    (bRes # "iter" /\ WholeRecords(bContent, bCfg.mode))
        => BufferLimit(Records(bContent, bCfg.mode),
                       TooLong(Records(bContent, bCfg.mode), bCfg.max_buffer_size))

RECURSIVE Blocks_run(_, _, _, _)
\* `for block in Blocks(fo, ...)` run to its end from iterator it: the
\* blocks returned, after those of out, and how the loop ended
Blocks_run(r, content, cfg, out) ==
    IF r.res = "block"
    THEN Blocks_run(BlockIterator_next(r.it, content, cfg), content, cfg,
                    Append(out, r.blk))
    ELSE [out |-> out, res |-> r.res]

\* the whole iteration over content with read_size n and the rest of cfg
Blocks_all(content, cfg, n) ==
    Blocks_run(BlockIterator_next(NewIterator(0), content,
                                  [cfg EXCEPT !.read_size = n]),
               content, [cfg EXCEPT !.read_size = n], <<>>)

\* every stretch of content between two record boundaries of the mode, the
\* bytes before the first and after the last included, is shorter than n
ShortRecords(content, mode, n) ==
    LET cuts == IF mode = "line"
                THEN {i \in 1..Len(content) :
                        Slice(content, i - Len(Terminal), i) = Terminal}
                ELSE RecordStarts(content)
        ends == cuts \cup {0, Len(content)}
    IN  \A i \in ends : \A j \in ends :
            (i < j /\ \A k \in cuts : ~(i < k /\ k < j)) => j - i < n

\* C40.  Chunking independence: for a fixed content, mode and strictness,
\* and records shorter than max_buffer_size, the blocks (begin, end, raw) an
\* iteration returns and the way it ends are the same for every read_size.
C40_ChunkingIndependent ==
    (bRes # "iter" /\ ShortRecords(bContent, bCfg.mode, bCfg.max_buffer_size))
        => \A n \in 1..MaxReadSize :
              Blocks_all(bContent, bCfg, n) = [out |-> bOut, res |-> bRes]


\* forms(fo) raises in the running step for a block read after at least one
\* block was yielded, and the except clause of step continues
FormsErrorHandled ==
    /\ pc = "step"
    /\ NextForm.res = "raise"
    /\ call.block # NoBlock
    /\ pc' = "step"

\* C35: a consume terminates: when Source.forms raises for a block after at
\* least one block was yielded and the error is tolerated, the file is read
\* on from the end of the offending block or later, so the same block is not
\* met again
C35_RecoveryProgresses ==
    [][FormsErrorHandled => call'.it.fpos >= NextForm.it.pos]_vars


\* offset o of a file of lines is a block boundary: the start of the file or
\* the end of a terminal
BlockBoundary(content, o) ==
    o = 0 \/ (o <= Len(content) /\ Slice(content, o - Len(Terminal), o) = Terminal)

\* C36: the offset a consume writes to the tracker lies on a block boundary,
\* never inside or after an unterminated trailing record
C36_TrackedOnBoundary ==
    \A p \in Paths : tracker[p] # None => BlockBoundary(files[p], tracker[p])


\* step() has taken a DELETE event and on_delete_file is about to run
DeleteDispatched == wpc = "dispatch" /\ event.flags = "delete"

\* C37: a DELETE event is always handled without error, also the second of
\* two DELETEs with no CREATE between them and one for a path the match
\* cache of the worker does not hold: the worker does not reach the except
\* clause of step(), where the throttle is engaged and the event requeued
C37_DeleteHandled == [][DeleteDispatched => wpc' # "except"]_vars


\* a ChannelThread leaves its loop by the break of the Queue.Empty branch
ThreadBreaks == thread.kind = "ChannelThread" /\ tpc = "get" /\ tpc' = "done"

\* C38: a ChannelThread that is not to run forever leaves its loop only when
\* the event queue and the throttle backlog are both empty, so every event
\* queued is passed to the channel, also one set aside while throttled
C38_ExitsWhenDrained ==
    [][ThreadBreaks => (tevents = 0 /\ ~thread.backlog)]_vars


\* the keys a step takes out of the tracker
KeysRemoved == Rows(cxn) \ Rows(cxn')

\* C39: delete_prefix(P), remove_dir(P) in the first tracker, removes only
\* keys that start with the literal P, byte for byte: case matters and no
\* character of P stands for another
C39_OnlyPrefixed ==
    [][gTrack'.op = "delete_prefix" =>
           \A k \in KeysRemoved : startswith(k, gTrack'.arg)]_vars

=============================================================================
